---- MODULE Spec2Model ----
(***************************************************************************)
(* State-machine model of daily-research-digest:                           *)
(*   - DigestGenerator.generate (src/daily_research_digest/digest.py),     *)
(*     run by several cooperatively scheduled callers;                     *)
(*   - the idempotent send pipeline async_main                             *)
(*     (src/daily_research_digest/digest_send.py);                         *)
(*   - LocalFileStateBackend and compute_digest_id                         *)
(*     (src/daily_research_digest/digest_state.py);                        *)
(*   - PaperRanker (src/arxiv_digest/ranker.py), the Quality Blender       *)
(*     (src/daily_research_digest/quality.py) and PaperMemory              *)
(*     (src/arxiv_digest/memory.py);                                       *)
(*   - DigestScheduler (src/daily_research_digest/scheduler.py) and the    *)
(*     retry loop of the Semantic Scholar client                           *)
(*     (src/daily_research_digest/sources/semantic_scholar.py).            *)
(* Each subsystem has its own specification (SpecGen, SpecPipeline,        *)
(* SpecMerge, SpecSelect, SpecRanker, SpecCalls, SpecQuality, SpecMemory,  *)
(* SpecScheduler, SpecRetry, SpecSend, SpecBackend, SpecId, SpecIdArgs)    *)
(* over the one set of variables; a specification leaves the variables of  *)
(* the other subsystems at their initial values.                           *)
(***************************************************************************)
EXTENDS FiniteSets, Integers, Sequences, TLC

(***************************************************************************)
(* Bounds of the model.                                                    *)
(***************************************************************************)
MaxTasks == 2
MaxPaperId == 1
MaxClock == 1
MaxPipelinePapers == 2
MaxPipelineRuns == 2

(***************************************************************************)
(* Generic helpers.                                                        *)
(***************************************************************************)
Range(s) == {s[i] : i \in DOMAIN s}

SeqsUpTo(S, n) == UNION {[1..k -> S] : k \in 0..n}

Min(a, b) == IF a < b THEN a ELSE b

Max(a, b) == IF a > b THEN a ELSE b

IsInjective(s) == \A i, j \in DOMAIN s : s[i] = s[j] => i = j

\* every arrangement of every sub-collection of the elements of s
PermsOfSubseqs(s) == {r \in SeqsUpTo(Range(s), Len(s)) : IsInjective(r)}

(***************************************************************************)
(* DigestGenerator: state.                                                 *)
(***************************************************************************)
VARIABLES
    is_generating,  \* DigestState.is_generating
    errors,         \* DigestState.errors
    last_digest,    \* DigestState.last_digest (0 is None, else the instant)
    hasMemory,      \* whether a PaperMemory is attached to the generator
    seen,           \* PaperMemory._seen
    storage,        \* DigestStorage: day -> file content
    genClock,       \* the instant datetime.now(timezone.utc) returns next
    pc,             \* per caller: where its generate call stands
    cfg,            \* per caller: the DigestConfig of its call
    papers,         \* per caller: local variable papers
    result          \* the dictionary the last generate call to return returned

genVars == <<is_generating, errors, last_digest, hasMemory, seen, storage,
             genClock, pc, cfg, papers, result>>

(***************************************************************************)
(* Send pipeline, state backend and digest identity: state.                *)
(***************************************************************************)
VARIABLES
    sent_json,      \* the file .digest_state/sent.json
    lastCall,       \* the last LocalFileStateBackend call and what it returned
    env,            \* the environment load_config_from_env reads
    wallClock,      \* the instant datetime.now(tz) returns next
    spc,            \* where the current async_main invocation stands
    run,            \* locals of the current async_main invocation
    exitCode,       \* exit status of the last finished invocation
    runs,           \* invocations started so far
    genCalls,       \* calls of generate_digest_content so far
    mailLog,        \* calls of SMTPProvider.send so far, with their outcome
    crashLog,       \* identities whose run died between send and mark_sent
    cleanSent,      \* some invocation delivered, marked and exited 0
    idIn,           \* arguments of two compute_digest_id calls
    idOut,          \* what the two calls returned
    fetchLog,       \* the fetches that have returned in the last run started
    emitted,        \* IDs in the digests of the completed runs so far
    returned,       \* per source: the Paper records its fetch returns
    sourcesOn,      \* config.sources of the fetch phase under study
    mergedPapers,   \* the list papers after the fetch phase
    selIn,          \* what rank_papers returned to generate, and the config
    selOut,         \* ranked_papers and top_papers at line 148
    rankIn,         \* rank_papers: the papers and the LLM's answer for each
    rankPos,        \* rank_papers: the loop index i of line 81
    ranked_papers,  \* rank_papers: the list ranked_papers
    rankOut,        \* what rank_papers returned
    qualIn,         \* arguments of a compute_quality_scores call
    qualOut,        \* the papers after the call and whether it raised
    sched_running,  \* DigestScheduler._running
    sched_task,     \* DigestScheduler._task (0 is None, else the loop task)
    sched_config,   \* DigestScheduler._config
    schedule_hour,  \* DigestScheduler.schedule_hour
    loopPc,         \* per loop task: where its _run_loop stands
    cancelReq,      \* loop tasks cancel() was called on, not yet resumed
    interrupted,    \* generate calls ended by CancelledError, and where
    schedCall,      \* the last step of the scheduler
    inFlight,       \* rank_papers: positions of the rank_paper calls in flight
    finished,       \* rank_papers: the calls of the batch that are done, in order
    max_retries,    \* SemanticScholarClient.max_retries
    attempt,        \* _fetch_with_retry: the loop variable attempt
    last_error,     \* _fetch_with_retry: whether last_error is set
    s2Pc,           \* where the fetch_papers call stands
    httpLog,        \* the requests, responses and sleeps of the call so far
    s2Out,          \* what fetch_papers returned
    memFile,        \* the JSON file of a PaperMemory
    memCall         \* the last PaperMemory call and what it returned

backendVars == <<sent_json, lastCall>>
sendVars == <<env, wallClock, spc, run, exitCode, runs, genCalls, mailLog,
              crashLog, cleanSent>>
idVars == <<idIn, idOut>>
historyVars == <<fetchLog, emitted>>
mergeVars == <<returned, sourcesOn, mergedPapers>>
selectVars == <<selIn, selOut>>
rankerVars == <<rankIn, rankPos, ranked_papers, rankOut>>
qualityVars == <<qualIn, qualOut>>
memoryVars == <<memFile, memCall>>
schedVars == <<sched_running, sched_task, sched_config, schedule_hour, loopPc,
              cancelReq, interrupted, schedCall>>
callVars == <<inFlight, finished>>
retryVars == <<max_retries, attempt, last_error, s2Pc, httpLog, s2Out>>
libVars == <<selectVars, rankerVars, qualityVars, memoryVars, schedVars,
            callVars, retryVars>>

vars == <<genVars, backendVars, sendVars, idVars, historyVars, mergeVars,
          libVars>>

Tasks == 1..MaxTasks
PaperIds == 1..MaxPaperId
TicksPerDay == 2
DayOf(now) == (now + TicksPerDay - 1) \div TicksPerDay
Days == 1..DayOf(Max(MaxClock, MaxPipelineRuns))

SourceNames == {"arxiv", "huggingface", "semantic_scholar"}

SourceChoices == {{}, {"semantic_scholar"}, SourceNames}

Configs == [sources : SourceChoices,
            exclude_seen : BOOLEAN,
            top_n : 0..MaxPaperId]

NoConfig == [sources |-> {}, exclude_seen |-> FALSE, top_n |-> 0]
NoFile == [exists |-> FALSE]
NoResult == [status |-> "none"]
\* no source has returned in the run
NoFetches ==
    [exclude_seen |-> FALSE, returned |-> 0, nonempty |-> FALSE,
     merged |-> <<>>, ranked |-> 0]
\* PaperMemory: the file does not exist
NoMemoryFile == [exists |-> FALSE, valid |-> FALSE, seen |-> <<>>]

\* rank_papers has not been called
NotRanked == [status |-> "not called", papers |-> <<>>]

\* no PaperMemory method has been called
NoMemoryCall == [op |-> "none"]

\* fetch_papers of the Semantic Scholar client has not returned
NoS2Result == [status |-> "none", papers |-> 0]

\* no call of the scheduler yet
NoSchedCall == [op |-> "none", noop |-> FALSE]

NoneReturned == [src \in SourceNames |-> <<>>]
NotMerged ==
    <<[arxiv_id |-> 0, author_h_indices |-> 0, huggingface_upvotes |-> 0]>>

\* what one source may return: any list of papers; the lists of two sources
\* may share IDs
FetchResults == SeqsUpTo(PaperIds, MaxPaperId)

InFlight == {"fetch_arxiv", "fetch_huggingface", "fetch_semantic_scholar", "rank"}

\* sources = config.sources or ["arxiv"]
EnabledSources(c) == IF c.sources = {} THEN {"arxiv"} ELSE c.sources

SourceOrder == <<"arxiv", "huggingface", "semantic_scholar">>

\* the await the run is suspended at once the sources before position k
\* are done: the next enabled source at position >= k, else none
RECURSIVE StageFrom(_, _)
StageFrom(c, k) ==
    IF k > Len(SourceOrder) THEN "merged"
    ELSE IF SourceOrder[k] \in EnabledSources(c)
         THEN "fetch_" \o SourceOrder[k]
         ELSE StageFrom(c, k + 1)

StageIndex(stage) ==
    CHOOSE k \in 1..Len(SourceOrder) : stage = "fetch_" \o SourceOrder[k]

\* _add_unique_papers: append the papers whose ID is not yet in seen_ids
RECURSIVE AddUniquePapers(_, _)
AddUniquePapers(merged, new_papers) ==
    IF new_papers = <<>> THEN merged
    ELSE AddUniquePapers(
            IF Head(new_papers) \in Range(merged) THEN merged
            ELSE Append(merged, Head(new_papers)),
            Tail(new_papers))

\* FilterUnseen with a memory that reports every ID as unseen
FilterUnseenKeepsAll(ps, mem) == ps

\* PaperMemory.filter_unseen followed by the list comprehension of line 114
FilterUnseen(ps, mem) == SelectSeq(ps, LAMBDA p : p \notin mem)

\* TopPapers for a slice that starts behind the first paper
TopPapersFromSecond(ranked, n) ==
    IF n >= 0 THEN SubSeq(ranked, 2, Min(n, Len(ranked)))
    ELSE SubSeq(ranked, 2, Max(0, Len(ranked) + n))

\* ranked_papers[: config.top_n]: a negative bound counts from the end
TopPapers(ranked, n) ==
    IF n >= 0 THEN SubSeq(ranked, 1, Min(n, Len(ranked)))
    ELSE SubSeq(ranked, 1, Max(0, Len(ranked) + n))

(***************************************************************************)
(* DigestGenerator.generate, one action per stretch of code between two    *)
(* suspension points (the awaits of lines 77, 87, 95 and 131).             *)
(***************************************************************************)

\* str(e) of an unexpected exception
ExceptionMessage == "unexpected exception"

\* leaving the try block: the finally clause of line 177 and the return
Finish(t, status) ==
    /\ is_generating' = FALSE
    /\ pc' = [pc EXCEPT ![t] = "idle"]
    /\ result' = [status |-> status]
    /\ cfg' = [cfg EXCEPT ![t] = NoConfig]
    /\ papers' = [papers EXCEPT ![t] = <<>>]

\* ReturnError with the release of the flag only on the success path
ReturnErrorLeaks(t, msg) ==
    /\ errors' = Append(errors, msg)
    /\ is_generating' = is_generating
    /\ pc' = [pc EXCEPT ![t] = "idle"]
    /\ result' = [status |-> "error"]
    /\ cfg' = [cfg EXCEPT ![t] = NoConfig]
    /\ papers' = [papers EXCEPT ![t] = <<>>]

\* the business-error returns of lines 106-107 and 119-120 and the
\* exception handler of lines 172-175; the returned errors list is
\* self.state.errors itself
ReturnError(t, msg) ==
    /\ errors' = Append(errors, msg)
    /\ Finish(t, "error")

\* GenerateRejected with the check placed inside the try block, so that the
\* finally clause releases the flag of the run in flight
GenerateRejectedReleases(t) ==
    /\ pc[t] = "idle"
    /\ is_generating
    /\ is_generating' = FALSE
    /\ result' = [status |-> "already_generating"]
    /\ UNCHANGED <<errors, last_digest, hasMemory, seen, storage, genClock,
                   pc, cfg, papers>>

\* lines 62-63: the call finds a run in flight
GenerateRejected(t) ==
    /\ pc[t] = "idle"
    /\ is_generating
    /\ result' = [status |-> "already_generating"]
    /\ UNCHANGED <<is_generating, errors, last_digest, hasMemory, seen,
                   storage, genClock, pc, cfg, papers>>

\* GenerateStart without the check of line 62
GenerateStartUnguarded(t, c) ==
    /\ pc[t] = "idle"
    /\ is_generating' = TRUE
    /\ errors' = <<>>
    /\ cfg' = [cfg EXCEPT ![t] = c]
    /\ papers' = [papers EXCEPT ![t] = <<>>]
    /\ pc' = [pc EXCEPT ![t] = StageFrom(c, 1)]
    /\ UNCHANGED <<last_digest, hasMemory, seen, storage, genClock, result>>

\* lines 62-77/87/95: the flag is taken, the errors are reset and the
\* first enabled source is called
GenerateStart(t, c) ==
    /\ pc[t] = "idle"
    /\ ~is_generating
    /\ is_generating' = TRUE
    /\ errors' = <<>>
    /\ cfg' = [cfg EXCEPT ![t] = c]
    /\ papers' = [papers EXCEPT ![t] = <<>>]
    /\ pc' = [pc EXCEPT ![t] = StageFrom(c, 1)]
    /\ UNCHANGED <<last_digest, hasMemory, seen, storage, genClock, result>>

Fetching(t) == pc[t] \in InFlight \ {"rank"}

NextStage(t) == StageFrom(cfg[t], StageIndex(pc[t]) + 1)

\* a source returns and a further source is enabled
FetchNext(t, fetched) ==
    /\ Fetching(t)
    /\ NextStage(t) # "merged"
    /\ papers' = [papers EXCEPT ![t] = AddUniquePapers(papers[t], fetched)]
    /\ pc' = [pc EXCEPT ![t] = NextStage(t)]
    /\ UNCHANGED <<is_generating, errors, last_digest, hasMemory, seen,
                   storage, genClock, cfg, result>>

\* AfterMemoryFilter without the test of config.exclude_seen
AfterMemoryFilterAlways(t, merged) ==
    IF hasMemory THEN FilterUnseen(merged, seen)
    ELSE merged

\* the papers that go on to ranking (lines 109-116)
AfterMemoryFilter(t, merged) ==
    IF hasMemory /\ cfg[t].exclude_seen THEN FilterUnseen(merged, seen)
    ELSE merged

\* FetchLastNoPapers with the test of line 105 applied to the last response
\* instead of the merged list
FetchLastNoPapersLastOnly(t, fetched) ==
    /\ Fetching(t)
    /\ NextStage(t) = "merged"
    /\ fetched = <<>>
    /\ ReturnError(t, "No papers fetched from any source")
    /\ UNCHANGED <<last_digest, hasMemory, seen, storage, genClock>>

\* the last source returns and nothing was fetched (lines 105-107)
FetchLastNoPapers(t, fetched) ==
    /\ Fetching(t)
    /\ NextStage(t) = "merged"
    /\ AddUniquePapers(papers[t], fetched) = <<>>
    /\ ReturnError(t, "No papers fetched from any source")
    /\ UNCHANGED <<last_digest, hasMemory, seen, storage, genClock>>

\* the last source returns and memory filters every paper out (118-120)
FetchLastNoUnseen(t, fetched) ==
    /\ Fetching(t)
    /\ NextStage(t) = "merged"
    /\ AddUniquePapers(papers[t], fetched) # <<>>
    /\ AfterMemoryFilter(t, AddUniquePapers(papers[t], fetched)) = <<>>
    /\ ReturnError(t, "No unseen papers after filtering")
    /\ UNCHANGED <<last_digest, hasMemory, seen, storage, genClock>>

\* the last source returns, papers remain, get_llm_for_provider raises
FetchLastLlmRaises(t, fetched) ==
    /\ Fetching(t)
    /\ NextStage(t) = "merged"
    /\ AfterMemoryFilter(t, AddUniquePapers(papers[t], fetched)) # <<>>
    /\ ReturnError(t, ExceptionMessage)
    /\ UNCHANGED <<last_digest, hasMemory, seen, storage, genClock>>

\* the last source returns, papers remain and rank_papers is awaited
FetchLastToRank(t, fetched) ==
    /\ Fetching(t)
    /\ NextStage(t) = "merged"
    /\ AfterMemoryFilter(t, AddUniquePapers(papers[t], fetched)) # <<>>
    /\ papers' = [papers EXCEPT ![t] =
                    AfterMemoryFilter(t, AddUniquePapers(papers[t], fetched))]
    /\ pc' = [pc EXCEPT ![t] = "rank"]
    /\ UNCHANGED <<is_generating, errors, last_digest, hasMemory, seen,
                   storage, genClock, cfg, result>>

\* the awaited fetch_papers raises
FetchRaises(t) ==
    /\ Fetching(t)
    /\ ReturnError(t, ExceptionMessage)
    /\ UNCHANGED <<last_digest, hasMemory, seen, storage, genClock>>

\* the awaited rank_papers raises
RankRaises(t) ==
    /\ pc[t] = "rank"
    /\ ReturnError(t, ExceptionMessage)
    /\ UNCHANGED <<last_digest, hasMemory, seen, storage, genClock>>

\* lines 151-159: the digest dictionary built from the top papers, as the
\* content of a file
BuildDigest(top, total) ==
    [exists |-> TRUE, partial |-> FALSE, total_papers_fetched |-> total,
     papers |-> top]

\* PaperMemory.record_many: every ID joins the seen set
RecordMany(mem, ids) == mem \cup ids

\* DigestStorage.save_digest: the file of the day of now is replaced by the
\* digest
SaveDigest(store, digest, now) == [store EXCEPT ![DayOf(now)] = digest]

\* DigestStorage.save_digest raising inside json.dump: open(..., "w") has
\* truncated the day's file and only a part of the digest is written
SaveDigestTorn(store, digest, now) ==
    [store EXCEPT ![DayOf(now)] = [digest EXCEPT !.partial = TRUE]]

\* RankCompleted recording every paper that was ranked
RankCompletedRecordsRanked(t, ranked) ==
    /\ pc[t] = "rank"
    /\ LET top == TopPapers(ranked, cfg[t].top_n)
           digest == BuildDigest(top, Len(papers[t]))
       IN  /\ seen' = IF hasMemory THEN RecordMany(seen, Range(papers[t]))
                      ELSE seen
           /\ storage' = SaveDigest(storage, digest, genClock)
           /\ last_digest' = genClock
           /\ Finish(t, "completed")
    /\ genClock' = genClock + 1
    /\ UNCHANGED <<errors, hasMemory>>

\* rank_papers returns; lines 133-170 run to the return of the digest
RankCompleted(t, ranked) ==
    /\ pc[t] = "rank"
    /\ LET top == TopPapers(ranked, cfg[t].top_n)
           digest == BuildDigest(top, Len(papers[t]))
       IN  /\ seen' = IF hasMemory THEN RecordMany(seen, Range(top)) ELSE seen
           /\ storage' = SaveDigest(storage, digest, genClock)
           /\ last_digest' = genClock
           /\ Finish(t, "completed")
    /\ genClock' = genClock + 1
    /\ UNCHANGED <<errors, hasMemory>>

\* rank_papers returns and memory.record_many raises (line 163); the IDs
\* may or may not have joined the in-memory set before the write failed
RankRecordRaises(t, ranked, recorded) ==
    /\ pc[t] = "rank"
    /\ hasMemory
    /\ seen' = IF recorded
               THEN RecordMany(seen, Range(TopPapers(ranked, cfg[t].top_n)))
               ELSE seen
    /\ ReturnError(t, ExceptionMessage)
    /\ genClock' = genClock + 1
    /\ UNCHANGED <<last_digest, hasMemory, storage>>

\* rank_papers returns and storage.save_digest raises (line 167): either
\* open() failed and the file is untouched, or json.dump failed after
\* open() truncated the file
RankSaveRaises(t, ranked, torn) ==
    /\ pc[t] = "rank"
    /\ LET top == TopPapers(ranked, cfg[t].top_n)
           digest == BuildDigest(top, Len(papers[t]))
       IN  /\ seen' = IF hasMemory THEN RecordMany(seen, Range(top)) ELSE seen
           /\ storage' = IF torn THEN SaveDigestTorn(storage, digest, genClock)
                         ELSE storage
    /\ ReturnError(t, ExceptionMessage)
    /\ genClock' = genClock + 1
    /\ UNCHANGED <<last_digest, hasMemory>>

(***************************************************************************)
(* The fetch phase of generate on full Paper records (lines 69-103).  A    *)
(* record keeps the fields the merge is about; 0 stands for None.          *)
(***************************************************************************)
MaxMergeIds == 1
MaxReturned == 2

NoneValue == 0

PaperRecords == [arxiv_id : 1..MaxMergeIds,
                 author_h_indices : {NoneValue, 1},
                 huggingface_upvotes : {NoneValue, 1}]

\* AddUniqueRecords without line 49
AddUniqueRecordsForgets(ps, new_papers, seen_ids) ==
    [papers |-> ps \o new_papers, seen_ids |-> seen_ids]

\* _add_unique_papers (lines 43-51): the lists papers and seen_ids after
\* the call
RECURSIVE AddUniqueRecords(_, _, _)
AddUniqueRecords(ps, new_papers, seen_ids) ==
    IF new_papers = <<>> THEN [papers |-> ps, seen_ids |-> seen_ids]
    ELSE IF Head(new_papers).arxiv_id \notin seen_ids
         THEN AddUniqueRecords(Append(ps, Head(new_papers)),
                               Tail(new_papers),
                               seen_ids \cup {Head(new_papers).arxiv_id})
         ELSE AddUniqueRecords(ps, Tail(new_papers), seen_ids)

\* lines 70-101: the enabled sources from position k on are merged into acc
RECURSIVE FetchPhase(_, _, _, _)
FetchPhase(enabled, results, k, acc) ==
    IF k > Len(SourceOrder) THEN acc.papers
    ELSE IF SourceOrder[k] \in enabled
         THEN FetchPhase(enabled, results, k + 1,
                         AddUniqueRecords(acc.papers, results[SourceOrder[k]],
                                          acc.seen_ids))
         ELSE FetchPhase(enabled, results, k + 1, acc)

ReturnedCount ==
    Len(returned["arxiv"]) + Len(returned["huggingface"])
        + Len(returned["semantic_scholar"])

\* the response of an enabled source holds one more paper
SourceReturns(src, rec) ==
    /\ mergedPapers = NotMerged
    /\ src \in EnabledSources([sources |-> sourcesOn])
    /\ ReturnedCount < MaxReturned
    /\ returned' = [returned EXCEPT ![src] = Append(@, rec)]
    /\ UNCHANGED <<sourcesOn, mergedPapers>>

\* the fetch phase runs on the responses
MergeFetched ==
    /\ mergedPapers = NotMerged
    /\ mergedPapers' = FetchPhase(EnabledSources([sources |-> sourcesOn]),
                                  returned, 1,
                                  [papers |-> <<>>, seen_ids |-> {}])
    /\ UNCHANGED <<returned, sourcesOn>>

(***************************************************************************)
(* generate called again and again by one caller on one generator, with    *)
(* a record of what the sources returned in the run and of the IDs the     *)
(* completed runs put into their digests.                                  *)
(***************************************************************************)
PipelinePaperIds == 1..MaxPipelinePapers

PipelineConfigs == [sources : {{}, {"arxiv", "semantic_scholar"}},
                    exclude_seen : BOOLEAN,
                    top_n : 0..MaxPipelinePapers]

\* what one source may return in these runs: papers in the order of their
\* IDs
PipelineFetchResults ==
    {r \in SeqsUpTo(PipelinePaperIds, MaxPipelinePapers) :
        \A i, j \in DOMAIN r : i < j => r[i] < r[j]}

\* a run with configuration c starts: no source has returned yet
LogStart(c) ==
    /\ fetchLog' = [NoFetches EXCEPT !.exclude_seen = c.exclude_seen]
    /\ UNCHANGED emitted

\* fetch_papers of the awaited source returns the list fetched
LogFetch(fetched) ==
    /\ fetchLog' = [fetchLog EXCEPT !.returned = @ + 1,
                                    !.nonempty = @ \/ fetched # <<>>,
                                    !.merged = AddUniquePapers(@, fetched)]
    /\ UNCHANGED emitted

\* the run returns the digest of line 170, built from the list ranked that
\* rank_papers returned
LogDigest(t, ranked) ==
    /\ emitted' = emitted \cup Range(TopPapers(ranked, cfg[t].top_n))
    /\ fetchLog' = [fetchLog EXCEPT !.ranked = Len(ranked)]

(***************************************************************************)
(* LocalFileStateBackend over the file sent.json.                          *)
(***************************************************************************)
MaxBackends == 2
Backends == 1..MaxBackends
MarkerIds == {"id-1", "id-2", "id-3"}

NoSentFile == [exists |-> FALSE, valid |-> FALSE, sent |-> <<>>]
CorruptSentFile == [exists |-> TRUE, valid |-> FALSE, sent |-> <<>>]

\* _load_state followed by state.get("sent", []): the list of identities;
\* a missing or unparsable file reads as the empty list
LoadState(file) ==
    IF ~file.exists THEN <<>>
    ELSE IF ~file.valid THEN <<>>
    ELSE file.sent

\* _save_state: the file is rewritten with the given list
SaveState(sent_list) == [exists |-> TRUE, valid |-> TRUE, sent |-> sent_list]

\* already_sent
AlreadySent(file, digest_id) == digest_id \in Range(LoadState(file))

\* MarkSent that writes a fresh list holding the one identity
MarkSentOverwrites(file, digest_id) ==
    IF digest_id \notin Range(LoadState(file))
    THEN SaveState(<<digest_id>>)
    ELSE file

\* mark_sent: the file after the call
MarkSent(file, digest_id) ==
    IF digest_id \notin Range(LoadState(file))
    THEN SaveState(Append(LoadState(file), digest_id))
    ELSE file

\* clear: the file after the call
Clear(file) == SaveState(<<>>)

\* list_sent
ListSent(file) == LoadState(file)

NoCall == [op |-> "none", backend |-> 0, id |-> "", ret |-> <<>>]

CallAlreadySent(b, id) ==
    /\ lastCall' = [op |-> "already_sent", backend |-> b, id |-> id,
                    ret |-> <<AlreadySent(sent_json, id)>>]
    /\ UNCHANGED sent_json

CallMarkSent(b, id) ==
    /\ sent_json' = MarkSent(sent_json, id)
    /\ lastCall' = [op |-> "mark_sent", backend |-> b, id |-> id, ret |-> <<>>]

CallClear(b) ==
    /\ sent_json' = Clear(sent_json)
    /\ lastCall' = [op |-> "clear", backend |-> b, id |-> "", ret |-> <<>>]

CallListSent(b) ==
    /\ lastCall' = [op |-> "list_sent", backend |-> b, id |-> "",
                    ret |-> ListSent(sent_json)]
    /\ UNCHANGED sent_json

(***************************************************************************)
(* compute_digest_id.  A string is a sequence of code points, a datetime   *)
(* is an instant together with the UTC offset of its timezone.             *)
(***************************************************************************)
MaxStrLen == 1
MaxRecipients == 2

Space == 32
Chars == {65, 97, 98}
Strings == SeqsUpTo(Chars, MaxStrLen)

IsUpper(c) == c >= 65 /\ c <= 90
IsLower(c) == c >= 97 /\ c <= 122

\* str.lower on one code point
LowerChar(c) == IF IsUpper(c) THEN c + 32 ELSE c

\* str.lower
Lower(str) == [i \in DOMAIN str |-> LowerChar(str[i])]

RECURSIVE LStrip(_)
LStrip(str) ==
    IF str # <<>> /\ Head(str) = Space THEN LStrip(Tail(str)) ELSE str

RECURSIVE RStrip(_)
RStrip(str) ==
    IF str # <<>> /\ str[Len(str)] = Space
    THEN RStrip(SubSeq(str, 1, Len(str) - 1))
    ELSE str

\* str.strip
Strip(str) == RStrip(LStrip(str))

\* the order of Python strings: by code point, a proper prefix first
RECURSIVE StrLess(_, _)
StrLess(a, b) ==
    IF b = <<>> THEN FALSE
    ELSE IF a = <<>> THEN TRUE
    ELSE IF Head(a) # Head(b) THEN Head(a) < Head(b)
    ELSE StrLess(Tail(a), Tail(b))

RECURSIVE InsertSorted(_, _)
InsertSorted(x, sorted) ==
    IF sorted = <<>> THEN <<x>>
    ELSE IF StrLess(x, Head(sorted)) THEN <<x>> \o sorted
    ELSE <<Head(sorted)>> \o InsertSorted(x, Tail(sorted))

\* sorted() on a list of strings
RECURSIVE Sorted(_)
Sorted(list) ==
    IF list = <<>> THEN <<>>
    ELSE InsertSorted(list[Len(list)], Sorted(SubSeq(list, 1, Len(list) - 1)))

\* NormalizeRecipients without the lower-casing of line 36
NormalizeRecipientsKeepCase(recipients) ==
    Sorted([i \in DOMAIN recipients |-> Strip(recipients[i])])

\* line 36: sorted(r.lower().strip() for r in recipients)
NormalizeRecipients(recipients) ==
    Sorted([i \in DOMAIN recipients |-> Strip(Lower(recipients[i]))])

\* Isoformat without the UTC offset
IsoformatNoOffset(dt) == <<dt.utc + dt.off>>

\* datetime.isoformat of an aware datetime: the wall-clock reading in its
\* timezone followed by the offset
Isoformat(dt) == <<dt.utc + dt.off, dt.off>>

\* json.dumps(normalized, sort_keys=True, ...): the values in key order
JsonDumps(normalized) ==
    <<normalized.recipients, normalized.subject_template,
      normalized.window_end, normalized.window_start>>

\* hashlib.sha256(...).hexdigest()[:16], taken to be free of collisions:
\* the digest stands for the content it was computed from
Sha256Hex16(content) == <<"sha256", content>>

\* compute_digest_id
ComputeDigestId(window_start, window_end, recipients, subject_template) ==
    Sha256Hex16(JsonDumps(
        [window_start |-> Isoformat(window_start),
         window_end |-> Isoformat(window_end),
         recipients |-> NormalizeRecipients(recipients),
         subject_template |-> Strip(subject_template)]))

IdOf(args) ==
    ComputeDigestId(args.window_start, args.window_end, args.recipients,
                    args.subject_template)

RecipientLists == SeqsUpTo(Strings, MaxRecipients)

IdArgs == [window_start : {[utc |-> 0, off |-> 0], [utc |-> 0, off |-> 1]},
           window_end : {[utc |-> 1, off |-> 0]},
           recipients : RecipientLists,
           subject_template : {<<Space, 97>>}]

NotComputed == <<>>

\* the second call gets two neighbouring recipients in the other order
SwapRecipients(i) ==
    /\ i \in 1..(Len(idIn.b.recipients) - 1)
    /\ LET r == idIn.b.recipients
       IN  idIn' = [idIn EXCEPT !.b.recipients =
                        [r EXCEPT ![i] = r[i + 1], ![i + 1] = r[i]]]
    /\ idOut' = NotComputed

\* the second call gets one letter of one recipient in the other case
ChangeCase(i, k) ==
    /\ i \in DOMAIN idIn.b.recipients
    /\ k \in DOMAIN idIn.b.recipients[i]
    /\ LET c == idIn.b.recipients[i][k]
           d == IF IsUpper(c) THEN c + 32 ELSE c - 32
       IN  /\ IsUpper(c) \/ IsLower(c)
           /\ d \in Chars
           /\ idIn' = [idIn EXCEPT !.b.recipients[i][k] = d]
    /\ idOut' = NotComputed

\* both calls are made
ComputeIds ==
    /\ idOut = NotComputed
    /\ idOut' = [a |-> IdOf(idIn.a), b |-> IdOf(idIn.b)]
    /\ UNCHANGED idIn

(***************************************************************************)
(* Lines 133-148 of generate on Paper records: the boost of the papers of  *)
(* priority authors, the sort and the cut to top_n.  Scores are whole      *)
(* numbers.                                                                *)
(***************************************************************************)
MaxRanked == 2
MaxRelevance == 2

\* the authors of a paper: none; "Ab"; "c"; "Ab" and "aB"
AuthorLists ==
    {<<>>, <<<<65, 98>>>>, <<<<99>>>>, <<<<65, 98>>, <<97, 66>>>>}

\* config.priority_authors: None; "a"; "B" and "a"; "x"
PriorityLists ==
    {<<>>, <<<<97>>>>, <<<<66>>, <<97>>>>, <<<<120>>>>}

RankedPapers == [authors : AuthorLists, relevance_score : 1..MaxRelevance]

SelectConfigs == [priority_authors : PriorityLists,
                  author_boost : {2},
                  top_n : (-1)..MaxRanked]

\* the operator in of two strings
Contains(sub, str) ==
    \E i \in 0..(Len(str) - Len(sub)) : SubSeq(str, i + 1, i + Len(sub)) = sub

\* lines 137-142: some lower-cased priority name is in some lower-cased
\* author name
HasPriorityAuthor(paper, priority_authors) ==
    \E a \in DOMAIN paper.authors : \E q \in DOMAIN priority_authors :
        Contains(Lower(priority_authors[q]), Lower(paper.authors[a]))

\* Boosted with one multiplication for every author that matches
BoostedPerAuthor(paper, config) ==
    LET matching == {a \in DOMAIN paper.authors :
                        \E q \in DOMAIN config.priority_authors :
                            Contains(Lower(config.priority_authors[q]),
                                     Lower(paper.authors[a]))}
    IN  [paper EXCEPT !.relevance_score =
            @ * (config.author_boost ^ Cardinality(matching))]

\* lines 136-143 for one paper
Boosted(paper, config) ==
    IF HasPriorityAuthor(paper, config.priority_authors)
    THEN [paper EXCEPT !.relevance_score = @ * config.author_boost]
    ELSE paper

\* InsertByScore with p ahead of the papers of the same score
RECURSIVE InsertAheadOfEqual(_, _)
InsertAheadOfEqual(p, sorted) ==
    IF sorted = <<>> THEN <<p>>
    ELSE IF Head(sorted).relevance_score > p.relevance_score
         THEN <<Head(sorted)>> \o InsertAheadOfEqual(p, Tail(sorted))
         ELSE <<p>> \o sorted

\* p goes behind every paper of the sorted list whose score is not smaller
RECURSIVE InsertByScore(_, _)
InsertByScore(p, sorted) ==
    IF sorted = <<>> THEN <<p>>
    ELSE IF Head(sorted).relevance_score >= p.relevance_score
         THEN <<Head(sorted)>> \o InsertByScore(p, Tail(sorted))
         ELSE <<p>> \o sorted

\* list.sort(key=lambda p: p.relevance_score, reverse=True): a stable sort
RECURSIVE SortByScore(_)
SortByScore(list) ==
    IF list = <<>> THEN <<>>
    ELSE InsertByScore(list[Len(list)],
                       SortByScore(SubSeq(list, 1, Len(list) - 1)))

\* lines 134-145: ranked_papers after the boost
BoostPriority(ranked, config) ==
    IF config.priority_authors = <<>> THEN ranked
    ELSE SortByScore([i \in DOMAIN ranked |-> Boosted(ranked[i], config)])

\* rank_papers has one more paper in the list it returns
RankerReturnsPaper(paper) ==
    /\ selOut = NotComputed
    /\ Len(selIn.ranked_papers) < MaxRanked
    /\ selIn' = [selIn EXCEPT !.ranked_papers =
                    Append(@, [arxiv_id |-> Len(@) + 1,
                               authors |-> paper.authors,
                               relevance_score |-> paper.relevance_score,
                               quality_score |-> NoneValue])]
    /\ UNCHANGED selOut

\* lines 133-148 run on the list rank_papers returned
SelectTopPapers ==
    /\ selOut = NotComputed
    /\ LET boosted == BoostPriority(selIn.ranked_papers, selIn.config)
       IN  selOut' = [ranked_papers |-> boosted,
                      top_papers |-> TopPapers(boosted, selIn.config.top_n)]
    /\ UNCHANGED selIn

(***************************************************************************)
(* PaperRanker (src/arxiv_digest/ranker.py).  The answer of the LLM to the *)
(* prompt of a paper is one of:                                            *)
(*   valid        a JSON object with a number as score and a reason        *)
(*   malformed    text that json.loads rejects                             *)
(*   score_text   a JSON object whose score is a word, as in "high"        *)
(*   score_null   a JSON object whose score is null                        *)
(*   missing_keys a JSON object without score and reason, as in {}         *)
(*   not_object   JSON that is not an object, as in [7]                    *)
(*   llm_error    ainvoke raises, as on a connection error                 *)
(***************************************************************************)
MaxRankInput == 3
MaxLlmScore == 2
MaxBatchSize == 2

FallbackScore == 5

Responses ==
    [kind : {"valid"}, score : 1..MaxLlmScore]
        \cup [kind : {"malformed", "score_text", "score_null", "missing_keys",
                      "not_object", "llm_error"},
              score : {0}]

\* rank_paper (lines 49-66): whether the call raises and, if not, the fields
\* it sets on the paper
RankPaper(paper, response) ==
    CASE response.kind = "valid" ->
            [raised |-> FALSE, arxiv_id |-> paper.arxiv_id,
             relevance_score |-> response.score,
             relevance_reason |-> "given"]
      [] response.kind \in {"malformed", "score_text"} ->
            [raised |-> FALSE, arxiv_id |-> paper.arxiv_id,
             relevance_score |-> FallbackScore,
             relevance_reason |-> "Unable to rank"]
      [] response.kind = "missing_keys" ->
            [raised |-> FALSE, arxiv_id |-> paper.arxiv_id,
             relevance_score |-> 0, relevance_reason |-> ""]
      [] OTHER ->
            [raised |-> TRUE, arxiv_id |-> paper.arxiv_id,
             relevance_score |-> 0, relevance_reason |-> ""]

\* the results of asyncio.gather(..., return_exceptions=True) on a batch
Gathered(batch) ==
    [k \in DOMAIN batch |-> RankPaper(batch[k], batch[k].response)]

\* PapersOf when the first exception of a batch ends the batch
RECURSIVE PapersUntilError(_)
PapersUntilError(results) ==
    IF results = <<>> \/ Head(results).raised THEN <<>>
    ELSE <<[arxiv_id |-> Head(results).arxiv_id,
            relevance_score |-> Head(results).relevance_score,
            relevance_reason |-> Head(results).relevance_reason]>>
            \o PapersUntilError(Tail(results))

\* lines 86-90: the results that are papers, in the order of the batch
RECURSIVE PapersOf(_)
PapersOf(results) ==
    IF results = <<>> THEN <<>>
    ELSE (IF Head(results).raised THEN <<>>
          ELSE <<[arxiv_id |-> Head(results).arxiv_id,
                  relevance_score |-> Head(results).relevance_score,
                  relevance_reason |-> Head(results).relevance_reason]>>)
            \o PapersOf(Tail(results))

\* Batch for a slice that is one paper too long
BatchOneMore(ps, i, batch_size) ==
    SubSeq(ps, i + 1, Min(i + batch_size + 1, Len(ps)))

\* papers[i : i + self.batch_size]
Batch(ps, i, batch_size) ==
    SubSeq(ps, i + 1, Min(i + batch_size, Len(ps)))

\* the list handed to rank_papers has one more paper, with the answer the
\* LLM will give for it
AddRankInput(response) ==
    /\ rankOut = NotRanked
    /\ Len(rankIn.papers) < MaxRankInput
    /\ rankIn' = [rankIn EXCEPT !.papers =
                    Append(@, [arxiv_id |-> Len(@) + 1,
                               response |-> response])]
    /\ UNCHANGED <<rankPos, ranked_papers, rankOut>>

\* rank_papers is called with an empty list: lines 78-98 without an await
RankNothing ==
    /\ rankOut = NotRanked
    /\ rankIn.papers = <<>>
    /\ rankOut' = [status |-> "returned", papers |-> <<>>]
    /\ UNCHANGED <<rankIn, rankPos, ranked_papers>>

\* rank_papers is called: lines 78-84, up to the gather of the first batch
RankStart ==
    /\ rankOut = NotRanked
    /\ rankIn.papers # <<>>
    /\ rankPos' = 0
    /\ ranked_papers' = <<>>
    /\ rankOut' = [status |-> "gather", papers |-> <<>>]
    /\ UNCHANGED rankIn

\* the gather of a batch returns and a batch remains: lines 86-94
BatchThenSleep ==
    /\ rankOut.status = "gather"
    /\ rankPos + rankIn.batch_size < Len(rankIn.papers)
    /\ ranked_papers' = ranked_papers
        \o PapersOf(Gathered(Batch(rankIn.papers, rankPos,
                                   rankIn.batch_size)))
    /\ rankOut' = [status |-> "sleep", papers |-> <<>>]
    /\ UNCHANGED <<rankIn, rankPos>>

\* the sleep between two batches ends: lines 81-84 for the next batch
SleepDone ==
    /\ rankOut.status = "sleep"
    /\ rankPos' = rankPos + rankIn.batch_size
    /\ rankOut' = [status |-> "gather", papers |-> <<>>]
    /\ UNCHANGED <<rankIn, ranked_papers>>

\* the gather of the last batch returns: lines 86-98
BatchThenReturn ==
    /\ rankOut.status = "gather"
    /\ rankPos + rankIn.batch_size >= Len(rankIn.papers)
    /\ ranked_papers' = SortByScore(ranked_papers
        \o PapersOf(Gathered(Batch(rankIn.papers, rankPos,
                                   rankIn.batch_size))))
    /\ rankOut' = [status |-> "returned", papers |-> ranked_papers']
    /\ UNCHANGED <<rankIn, rankPos>>

(***************************************************************************)
(* rank_papers with the rank_paper calls of a batch as tasks of their own  *)
(* (ranker.py lines 81-98): gather starts the calls of the batch together, *)
(* each call finishes when its LLM call does, and gather returns when the  *)
(* last one has.                                                           *)
(***************************************************************************)
\* the answers of the LLM in these runs: a score, or an exception of the
\* LLM call
CallResponses == {r \in Responses : r.kind \in {"valid", "llm_error"}}

\* the positions in papers of the batch that starts at index i
BatchPositions(i) ==
    {i + k : k \in DOMAIN Batch(rankIn.papers, i, rankIn.batch_size)}

\* GatherResults for a gather that hands the results back in the order the
\* calls finished in
GatherResultsAsCompleted(batch, done) ==
    [k \in DOMAIN done |-> RankPaper(batch[done[k]], batch[done[k]].response)]

\* line 84: gather returns the results in the order of the awaitables it
\* was given, whatever the order done the calls finished in
GatherResults(batch, done) == Gathered(batch)

\* the results of the batch in flight, once every call of it is done
BatchResults ==
    GatherResults(Batch(rankIn.papers, rankPos, rankIn.batch_size),
                  [k \in DOMAIN finished |-> finished[k] - rankPos])

\* the list handed to rank_papers has one more paper
AddCallInput(response) ==
    /\ AddRankInput(response)
    /\ UNCHANGED callVars

\* rank_papers is called with an empty list
CallsNone ==
    /\ RankNothing
    /\ UNCHANGED callVars

\* rank_papers is called: lines 78-84, the calls of the first batch start
CallsStart ==
    /\ RankStart
    /\ inFlight' = BatchPositions(0)
    /\ finished' = <<>>

\* the LLM call of the rank_paper call at position i returns or raises and
\* the call ends
CallFinishes(i) ==
    /\ rankOut.status = "gather"
    /\ i \in inFlight
    /\ inFlight' = inFlight \ {i}
    /\ finished' = Append(finished, i)
    /\ UNCHANGED rankerVars

\* every call of the batch is done and a batch remains: lines 84-94
GatherThenSleep ==
    /\ rankOut.status = "gather"
    /\ inFlight = {}
    /\ rankPos + rankIn.batch_size < Len(rankIn.papers)
    /\ ranked_papers' = ranked_papers \o PapersOf(BatchResults)
    /\ rankOut' = [status |-> "sleep", papers |-> <<>>]
    /\ UNCHANGED <<rankIn, rankPos, callVars>>

\* the sleep of line 94 ends: lines 81-84, the calls of the next batch
\* start
SleepThenGather ==
    /\ SleepDone
    /\ inFlight' = BatchPositions(rankPos')
    /\ finished' = <<>>

\* every call of the last batch is done: lines 84-98
GatherThenReturn ==
    /\ rankOut.status = "gather"
    /\ inFlight = {}
    /\ rankPos + rankIn.batch_size >= Len(rankIn.papers)
    /\ ranked_papers' = SortByScore(ranked_papers \o PapersOf(BatchResults))
    /\ rankOut' = [status |-> "returned", papers |-> ranked_papers']
    /\ UNCHANGED <<rankIn, rankPos, callVars>>

(***************************************************************************)
(* The Quality Blender (src/daily_research_digest/quality.py).  An         *)
(* optional value is a sequence: <<>> is None and <<v>> is the value v.    *)
(* A score is a fraction num / den with den > 0, so that the arithmetic of *)
(* lines 34-45 is exact.  The dataclass Paper (models.py 22-37) declares   *)
(* no field huggingface_upvotes: a paper has the attribute only when it    *)
(* was assigned to the object.                                             *)
(***************************************************************************)
MaxSignal == 2

DefaultCeiling == 100

\* author_h_indices: None; one author; two authors, one of h-index 0
HIndexLists ==
    {<<>>} \cup {<<h>> : h \in 0..MaxSignal}
           \cup {<<0, h>> : h \in 1..MaxSignal}

\* huggingface_upvotes: no such attribute; None; a count
UpvoteFields ==
    {[attr |-> FALSE, value |-> <<>>], [attr |-> TRUE, value |-> <<>>]}
        \cup {[attr |-> TRUE, value |-> <<v>>] : v \in 0..MaxSignal}

QualityPapers == [relevance_score : (-1)..MaxRelevance,
                  author_h_indices : HIndexLists,
                  huggingface_upvotes : UpvoteFields]

\* what the other paper of a batch may be
OtherPapers == [relevance_score : {1},
                author_h_indices : {<<>>, <<MaxSignal>>},
                huggingface_upvotes : {[attr |-> TRUE, value |-> <<>>],
                                       [attr |-> TRUE, value |-> <<MaxSignal>>]}]

\* max_h_index and max_upvotes: None or a number
Ceilings == {<<>>} \cup {<<c>> : c \in 0..MaxSignal}

RECURSIVE SumSeq(_)
SumSeq(list) == IF list = <<>> THEN 0 ELSE Head(list) + SumSeq(Tail(list))

MaxOf(S) == CHOOSE m \in S : \A x \in S : x <= m

\* HFactor without the min of line 35
HFactorUncapped(paper, max_h_index) ==
    IF paper.author_h_indices = <<>> THEN [num |-> 0, den |-> 1]
    ELSE [num |-> SumSeq(paper.author_h_indices),
          den |-> Len(paper.author_h_indices) * max_h_index]

\* lines 32-35: h_factor
HFactor(paper, max_h_index) ==
    IF paper.author_h_indices = <<>> THEN [num |-> 0, den |-> 1]
    ELSE IF SumSeq(paper.author_h_indices)
                >= Len(paper.author_h_indices) * max_h_index
         THEN [num |-> 1, den |-> 1]
         ELSE [num |-> SumSeq(paper.author_h_indices),
               den |-> Len(paper.author_h_indices) * max_h_index]

\* lines 38-40: upvotes_factor, for a paper that has the attribute
UpvotesFactor(paper, max_upvotes) ==
    IF paper.huggingface_upvotes.value = <<>> THEN [num |-> 0, den |-> 1]
    ELSE IF paper.huggingface_upvotes.value[1] <= 0
         THEN [num |-> 0, den |-> 1]
         ELSE IF paper.huggingface_upvotes.value[1] >= max_upvotes
              THEN [num |-> 1, den |-> 1]
              ELSE [num |-> paper.huggingface_upvotes.value[1],
                    den |-> max_upvotes]

\* compute_quality_score (lines 29-45) for a paper that has the attribute:
\* llm_relevance * (1 + 0.1 * h_factor + 0.1 * upvotes_factor)
ComputeQualityScore(paper, max_h_index, max_upvotes) ==
    LET h == HFactor(paper, max_h_index)
        u == UpvotesFactor(paper, max_upvotes)
    IN  [num |-> paper.relevance_score
                    * (10 * h.den * u.den + h.num * u.den + u.num * h.den),
         den |-> 10 * h.den * u.den]

\* lines 69-73 and 84
CeilingOfHIndex(ps, max_h_index) ==
    LET all_h_indices ==
            UNION {Range(ps[k].author_h_indices) : k \in DOMAIN ps}
        given == IF max_h_index # <<>> THEN max_h_index[1]
                 ELSE IF all_h_indices # {} THEN MaxOf(all_h_indices)
                 ELSE DefaultCeiling
    IN  Max(given, 1)

\* lines 75-81 and 85, for papers that all have the attribute
CeilingOfUpvotes(ps, max_upvotes) ==
    LET all_upvotes ==
            {ps[k].huggingface_upvotes.value[1] :
                k \in {j \in DOMAIN ps :
                        /\ ps[j].huggingface_upvotes.value # <<>>
                        /\ ps[j].huggingface_upvotes.value[1] > 0}}
        given == IF max_upvotes # <<>> THEN max_upvotes[1]
                 ELSE IF all_upvotes # {} THEN MaxOf(all_upvotes)
                 ELSE DefaultCeiling
    IN  Max(given, 1)

\* the papers in front of the first one without the attribute
\* huggingface_upvotes
ScoredBeforeError(ps) ==
    {k \in DOMAIN ps : \A j \in 1..k : ps[j].huggingface_upvotes.attr}

\* compute_quality_scores (lines 65-92): quality_score of every paper after
\* the call, and whether the call raised AttributeError
ComputeQualityScores(ps, max_h_index, max_upvotes) ==
    LET all_have == \A k \in DOMAIN ps : ps[k].huggingface_upvotes.attr
        scan_raises == max_upvotes = <<>> /\ ~all_have
        max_h == CeilingOfHIndex(ps, max_h_index)
        max_u == IF max_upvotes # <<>> THEN Max(max_upvotes[1], 1)
                 ELSE CeilingOfUpvotes(ps, max_upvotes)
    IN  [raised |-> ~all_have,
         quality_score |->
            [k \in DOMAIN ps |->
                IF ~scan_raises /\ k \in ScoredBeforeError(ps)
                THEN <<ComputeQualityScore(ps[k], max_h, max_u)>>
                ELSE <<>>]]

\* the list handed to compute_quality_scores has one more paper
AddQualityPaper(paper) ==
    /\ qualOut = NotComputed
    /\ \/ qualIn.papers = <<>> /\ paper \in QualityPapers
       \/ Len(qualIn.papers) = 1 /\ paper \in OtherPapers
    /\ qualIn' = [qualIn EXCEPT !.papers = Append(@, paper)]
    /\ UNCHANGED qualOut

\* compute_quality_scores is called
CallComputeQualityScores ==
    /\ qualOut = NotComputed
    /\ qualOut' = ComputeQualityScores(qualIn.papers, qualIn.max_h_index,
                                       qualIn.max_upvotes)
    /\ UNCHANGED qualIn

(***************************************************************************)
(* PaperMemory (src/arxiv_digest/memory.py): one object, the set _seen it  *)
(* holds and the JSON file it writes.                                      *)
(***************************************************************************)
MaxMemoryIds == 2
MaxIdList == 2

MemoryIds == 1..MaxMemoryIds

\* the lists of IDs a caller may pass, repeated IDs included
IdLists == SeqsUpTo(MemoryIds, MaxIdList)

\* what write_text leaves when it fails after it has truncated the file
CorruptMemoryFile == [exists |-> TRUE, valid |-> FALSE, seen |-> <<>>]

\* line 29: sorted(self._seen)
RECURSIVE SortedIds(_)
SortedIds(mem) ==
    IF mem = {} THEN <<>>
    ELSE LET least == CHOOSE id \in mem : \A other \in mem : id <= other
         IN  <<least>> \o SortedIds(mem \ {least})

\* SavedMemory for a _save that writes the file before the set is changed
SavedMemoryStale(mem) ==
    [exists |-> TRUE, valid |-> TRUE, seen |-> <<>>]

\* _save: the file holds the sorted list of the IDs
SavedMemory(mem) ==
    [exists |-> TRUE, valid |-> TRUE, seen |-> SortedIds(mem)]

\* _load: the set of the list under "seen" of the file, the empty set when
\* there is no file
LoadMemory(file) == IF file.exists THEN Range(file.seen) ELSE {}

\* Record for a memory that forgets an ID recorded a second time
RecordToggles(mem, arxiv_id) ==
    IF arxiv_id \in mem THEN mem \ {arxiv_id} ELSE mem \cup {arxiv_id}

\* line 33: self._seen.add(arxiv_id)
Record(mem, arxiv_id) == mem \cup {arxiv_id}

\* line 42: set(arxiv_ids) - self._seen
UnseenIds(arxiv_ids, mem) == Range(arxiv_ids) \ mem

\* count
Count(mem) == Cardinality(mem)

\* PaperMemory(path): a new object on the file; json.loads raises on a
\* file that is not JSON and no object is made
MemoryOpen ==
    /\ ~memFile.exists \/ memFile.valid
    /\ seen' = LoadMemory(memFile)
    /\ memCall' = [op |-> "open", raised |-> FALSE]
    /\ UNCHANGED memFile

\* PaperMemory(path) on a file that is not JSON: json.loads (line 23)
\* raises JSONDecodeError, which _load and __init__ let through
MemoryOpenRaises ==
    /\ memFile.exists /\ ~memFile.valid
    /\ memCall' = [op |-> "open", raised |-> TRUE]
    /\ UNCHANGED <<seen, memFile>>

\* record(arxiv_id)
MemoryRecord(arxiv_id) ==
    /\ seen' = Record(seen, arxiv_id)
    /\ memFile' = SavedMemory(seen')
    /\ memCall' = [op |-> "record", arg |-> arxiv_id,
                   known |-> arxiv_id \in seen, raised |-> FALSE]

\* record(arxiv_id) with _save raising: the set has the ID, the file is
\* untouched or truncated
MemoryRecordSaveRaises(arxiv_id, torn) ==
    /\ seen' = Record(seen, arxiv_id)
    /\ memFile' = IF torn THEN CorruptMemoryFile ELSE memFile
    /\ memCall' = [op |-> "record", arg |-> arxiv_id,
                   known |-> arxiv_id \in seen, raised |-> TRUE]

\* is_seen(arxiv_id)
MemoryIsSeen(arxiv_id) ==
    /\ memCall' = [op |-> "is_seen", arg |-> arxiv_id,
                   ret |-> arxiv_id \in seen]
    /\ UNCHANGED <<seen, memFile>>

\* MemoryFilterUnseen for a memory that takes the IDs it returns as seen
MemoryFilterUnseenRecords(arxiv_ids) ==
    /\ memCall' = [op |-> "filter_unseen", arg |-> arxiv_ids,
                   ret |-> UnseenIds(arxiv_ids, seen)]
    /\ seen' = seen \cup UnseenIds(arxiv_ids, seen)
    /\ memFile' = SavedMemory(seen')

\* filter_unseen(arxiv_ids)
MemoryFilterUnseen(arxiv_ids) ==
    /\ memCall' = [op |-> "filter_unseen", arg |-> arxiv_ids,
                   ret |-> UnseenIds(arxiv_ids, seen)]
    /\ UNCHANGED <<seen, memFile>>

\* clear()
MemoryClear ==
    /\ seen' = {}
    /\ memFile' = SavedMemory(seen')
    /\ memCall' = [op |-> "clear"]

\* count()
MemoryCount ==
    /\ memCall' = [op |-> "count", ret |-> Count(seen)]
    /\ UNCHANGED <<seen, memFile>>

(***************************************************************************)
(* Two calls of compute_digest_id whose window bounds and subject          *)
(* templates are chosen freely.                                            *)
(***************************************************************************)
MaxInstant == 1
MaxSubjectLen == 2

\* aware datetimes: an instant and the UTC offset of the timezone
DateTimes == [utc : 0..MaxInstant, off : {0, 1}]

SubjectTemplates == SeqsUpTo({Space, 97}, MaxSubjectLen)

WindowArgs == [window_start : DateTimes,
               window_end : {[utc |-> MaxInstant, off |-> 0]},
               recipients : {<<<<97>>>>},
               subject_template : SubjectTemplates]

\* the second call gets another window_start
SetWindowStart(dt) ==
    /\ dt # idIn.b.window_start
    /\ idIn' = [idIn EXCEPT !.b.window_start = dt]
    /\ idOut' = NotComputed

\* the second call gets another window_end
SetWindowEnd(dt) ==
    /\ dt # idIn.b.window_end
    /\ idIn' = [idIn EXCEPT !.b.window_end = dt]
    /\ idOut' = NotComputed

\* the second call gets another subject template
SetSubject(subject) ==
    /\ subject # idIn.b.subject_template
    /\ idIn' = [idIn EXCEPT !.b.subject_template = subject]
    /\ idOut' = NotComputed

(***************************************************************************)
(* The send pipeline async_main (digest_send.py), one invocation at a      *)
(* time; an invocation may be killed between two steps.                    *)
(***************************************************************************)
MaxRuns == 3
MaxWallClock == 1

Envs == [recipients : {<<>>, <<<<97>>>>, <<<<98>>, <<65>>>>},
         subject : {<<97>>},
         window : {1},
         tz_known : BOOLEAN,
         tz_off : {0},
         smtp_host : BOOLEAN,
         state_s3_uri : BOOLEAN]

NoEnv == [recipients |-> <<>>, subject |-> <<>>, window |-> 0,
          tz_known |-> FALSE, tz_off |-> 0, smtp_host |-> FALSE,
          state_s3_uri |-> FALSE]

NoRun == [digest_id |-> <<>>, outcome |-> "none", sent |-> FALSE]

\* load_config_from_env returns a configuration (no ConfigError): the
\* recipients and the SMTP host are there
LoadConfigOk(e) == e.recipients # <<>> /\ e.smtp_host

\* lines 198-204: the identity of the run that reads the clock at now
RunDigestId(e, now) ==
    ComputeDigestId([utc |-> now - e.window, off |-> e.tz_off],
                    [utc |-> now, off |-> e.tz_off],
                    e.recipients, e.subject)

\* the invocation ends with the given exit status
Exit(code, outcome) ==
    /\ spc' = "idle"
    /\ exitCode' = code
    /\ run' = [run EXCEPT !.outcome = outcome]

NewRun(outcome) ==
    [digest_id |-> RunDigestId(env, wallClock), outcome |-> outcome,
     sent |-> FALSE]

\* time passes
Tick ==
    /\ wallClock < MaxWallClock
    /\ wallClock' = wallClock + 1
    /\ UNCHANGED <<env, spc, run, exitCode, runs, genCalls, mailLog,
                   crashLog, cleanSent, sent_json>>

CanStart == spc = "idle" /\ runs < MaxRuns

\* lines 185-189: load_config_from_env raises ConfigError
StartConfigError ==
    /\ CanStart
    /\ ~LoadConfigOk(env)
    /\ runs' = runs + 1
    /\ spc' = "idle"
    /\ exitCode' = 1
    /\ run' = [NoRun EXCEPT !.outcome = "config_error"]
    /\ UNCHANGED <<env, wallClock, genCalls, mailLog, crashLog, cleanSent,
                   sent_json>>

\* lines 192-196: the timezone is unknown
StartBadTimezone ==
    /\ CanStart
    /\ LoadConfigOk(env)
    /\ ~env.tz_known
    /\ runs' = runs + 1
    /\ spc' = "idle"
    /\ exitCode' = 1
    /\ run' = [NoRun EXCEPT !.outcome = "timezone_error"]
    /\ UNCHANGED <<env, wallClock, genCalls, mailLog, crashLog, cleanSent,
                   sent_json>>

\* StartStateBackendError with NotImplementedError read as "not yet sent"
StartStateBackendProceeds ==
    /\ CanStart
    /\ LoadConfigOk(env)
    /\ env.tz_known
    /\ env.state_s3_uri
    /\ runs' = runs + 1
    /\ spc' = "generate"
    /\ run' = NewRun("running")
    /\ genCalls' = genCalls + 1
    /\ UNCHANGED <<env, wallClock, exitCode, mailLog, crashLog, cleanSent,
                   sent_json>>

\* lines 216-228: the S3 backend raises NotImplementedError
StartStateBackendError ==
    /\ CanStart
    /\ LoadConfigOk(env)
    /\ env.tz_known
    /\ env.state_s3_uri
    /\ runs' = runs + 1
    /\ spc' = "idle"
    /\ exitCode' = 1
    /\ run' = NewRun("state_backend_error")
    /\ UNCHANGED <<env, wallClock, genCalls, mailLog, crashLog, cleanSent,
                   sent_json>>

\* lines 221-225: the identity is already marked, the run is a no-op
StartAlreadySent ==
    /\ CanStart
    /\ LoadConfigOk(env)
    /\ env.tz_known
    /\ ~env.state_s3_uri
    /\ AlreadySent(sent_json, RunDigestId(env, wallClock))
    /\ runs' = runs + 1
    /\ spc' = "idle"
    /\ exitCode' = 0
    /\ run' = NewRun("skipped")
    /\ UNCHANGED <<env, wallClock, genCalls, mailLog, crashLog, cleanSent,
                   sent_json>>

\* StartProceed without the check of lines 221-225
StartProceedUnchecked ==
    /\ CanStart
    /\ LoadConfigOk(env)
    /\ env.tz_known
    /\ ~env.state_s3_uri
    /\ runs' = runs + 1
    /\ spc' = "generate"
    /\ run' = NewRun("running")
    /\ genCalls' = genCalls + 1
    /\ UNCHANGED <<env, wallClock, exitCode, mailLog, crashLog, cleanSent,
                   sent_json>>

\* lines 221-238: the identity is not marked, generate_digest_content is
\* awaited
StartProceed ==
    /\ CanStart
    /\ LoadConfigOk(env)
    /\ env.tz_known
    /\ ~env.state_s3_uri
    /\ ~AlreadySent(sent_json, RunDigestId(env, wallClock))
    /\ runs' = runs + 1
    /\ spc' = "generate"
    /\ run' = NewRun("running")
    /\ genCalls' = genCalls + 1
    /\ UNCHANGED <<env, wallClock, exitCode, mailLog, crashLog, cleanSent,
                   sent_json>>

\* lines 239-241: generate_digest_content raises
GenerateFails ==
    /\ spc = "generate"
    /\ Exit(1, "generate_failed")
    /\ UNCHANGED <<env, wallClock, runs, genCalls, mailLog, crashLog,
                   cleanSent, sent_json>>

\* lines 126-130 and 239-241: generate returned status error with "No
\* papers fetched from any source"; generate_digest_content raises
\* RuntimeError, which async_main catches
GenerateNoPapers ==
    /\ spc = "generate"
    /\ Exit(1, "no_papers_fetched")
    /\ UNCHANGED <<env, wallClock, runs, genCalls, mailLog, crashLog,
                   cleanSent, sent_json>>

\* GenerateEmpty without the mark_sent of line 246
GenerateEmptyUnmarked ==
    /\ spc = "generate"
    /\ sent_json' = sent_json
    /\ Exit(0, "empty")
    /\ UNCHANGED <<env, wallClock, runs, genCalls, mailLog, crashLog,
                   cleanSent>>

\* lines 243-247: the digest has no papers and is marked sent
GenerateEmpty ==
    /\ spc = "generate"
    /\ sent_json' = MarkSent(sent_json, run.digest_id)
    /\ Exit(0, "empty")
    /\ UNCHANGED <<env, wallClock, runs, genCalls, mailLog, crashLog,
                   cleanSent>>

\* lines 249-262: the digest has papers, provider.send is called
GenerateReady ==
    /\ spc = "generate"
    /\ spc' = "send"
    /\ UNCHANGED <<env, wallClock, run, exitCode, runs, genCalls, mailLog,
                   crashLog, cleanSent, sent_json>>

\* SMTPProvider.send returns
SendOk ==
    /\ spc = "send"
    /\ mailLog' = Append(mailLog, [id |-> run.digest_id, outcome |-> "ok"])
    /\ run' = [run EXCEPT !.sent = TRUE]
    /\ spc' = "mark"
    /\ UNCHANGED <<env, wallClock, exitCode, runs, genCalls, crashLog,
                   cleanSent, sent_json>>

\* SendFails with the marking placed in a finally clause
SendFailsMarks(delivered) ==
    /\ spc = "send"
    /\ mailLog' = Append(mailLog,
                    [id |-> run.digest_id,
                     outcome |-> IF delivered THEN "error_after_delivery"
                                 ELSE "error"])
    /\ sent_json' = MarkSent(sent_json, run.digest_id)
    /\ Exit(1, "send_failed")
    /\ UNCHANGED <<env, wallClock, runs, genCalls, crashLog, cleanSent>>

\* lines 269-271: SMTPProvider.send raises EmailSendError, either before
\* sendmail succeeded or from server.quit() after it
SendFails(delivered) ==
    /\ spc = "send"
    /\ mailLog' = Append(mailLog,
                    [id |-> run.digest_id,
                     outcome |-> IF delivered THEN "error_after_delivery"
                                 ELSE "error"])
    /\ Exit(1, "send_failed")
    /\ UNCHANGED <<env, wallClock, runs, genCalls, crashLog, cleanSent,
                   sent_json>>

\* lines 273-284: the identity is marked and the run exits 0
MarkAndExit ==
    /\ spc = "mark"
    /\ sent_json' = MarkSent(sent_json, run.digest_id)
    /\ cleanSent' = TRUE
    /\ Exit(0, "sent")
    /\ UNCHANGED <<env, wallClock, runs, genCalls, mailLog, crashLog>>

\* the process is killed (or mark_sent raises) before it finishes
Crash ==
    /\ spc \in {"generate", "send", "mark"}
    /\ crashLog' = Append(crashLog, [id |-> run.digest_id, at |-> spc])
    /\ Exit("crash", "crashed")
    /\ UNCHANGED <<env, wallClock, runs, genCalls, mailLog, cleanSent,
                   sent_json>>

(***************************************************************************)
(* DigestScheduler (scheduler.py).  Loop task t runs _run_loop and calls   *)
(* generate as caller t.  cancel() on a task makes the await it is         *)
(* suspended at raise CancelledError when the task is next resumed.        *)
(***************************************************************************)
\* hours the scheduler may be given: 6 is the default, 24 makes
\* now.replace(hour=...) of line 63 raise ValueError
HourChoices == {6, 24}

\* the configurations the scheduler is started with
SchedulerConfigs == [sources : {{}, {"arxiv", "semantic_scholar"}},
                     exclude_seen : {TRUE},
                     top_n : {1}]

\* what a source may return in a scheduled run
SchedulerFetchResults == {<<>>, <<1>>}

LoopEnded == {"none", "exited", "cancelled"}

\* lines 74-78: the next sleep is computed and awaited, or
\* _seconds_until_next_run raises and the handler of lines 87-90 sleeps
SleepOrError == IF schedule_hour < 24 THEN "sleep" ELSE "error_sleep"

\* the while test of line 73 and what follows it
LoopAround == IF sched_running THEN SleepOrError ELSE "exited"

\* start(config, schedule_hour) on a running scheduler: line 36 returns
StartNoop(c, h) ==
    /\ sched_running
    /\ schedCall' = [op |-> "start", noop |-> TRUE]
    /\ UNCHANGED <<sched_running, sched_task, sched_config, schedule_hour,
                   loopPc, cancelReq, interrupted>>
    /\ UNCHANGED genVars

\* start(config, schedule_hour), lines 39-45: a new task is created for
\* _run_loop
Start(c, h) ==
    /\ ~sched_running
    /\ \E t \in Tasks :
        /\ loopPc[t] = "none"
        /\ \A u \in Tasks : u < t => loopPc[u] # "none"
        /\ sched_task' = t
        /\ loopPc' = [loopPc EXCEPT ![t] = "created"]
    /\ schedule_hour' = IF h # NoneValue THEN h ELSE schedule_hour
    /\ sched_config' = c
    /\ sched_running' = TRUE
    /\ schedCall' = [op |-> "start", noop |-> FALSE]
    /\ UNCHANGED <<cancelReq, interrupted>>
    /\ UNCHANGED genVars

\* Stop that clears the task reference without cancelling the task
StopWithoutCancel ==
    /\ sched_running' = FALSE
    /\ cancelReq' = cancelReq
    /\ sched_task' = 0
    /\ schedCall' = [op |-> "stop", noop |-> FALSE]
    /\ UNCHANGED <<sched_config, schedule_hour, loopPc, interrupted>>
    /\ UNCHANGED genVars

\* stop(), lines 49-53
Stop ==
    /\ sched_running' = FALSE
    /\ cancelReq' = IF sched_task # 0 /\ loopPc[sched_task] \notin LoopEnded
                    THEN cancelReq \cup {sched_task}
                    ELSE cancelReq
    /\ sched_task' = 0
    /\ schedCall' = [op |-> "stop", noop |-> FALSE]
    /\ UNCHANGED <<sched_config, schedule_hour, loopPc, interrupted>>
    /\ UNCHANGED genVars

\* a loop task that is not being cancelled takes a step
LoopStep(t, next) ==
    /\ t \notin cancelReq
    /\ loopPc' = [loopPc EXCEPT ![t] = next]
    /\ schedCall' = [op |-> "loop", noop |-> FALSE]
    /\ UNCHANGED <<sched_running, sched_task, sched_config, schedule_hour,
                   cancelReq, interrupted>>

\* the task starts to run: lines 73-78
LoopBegins(t) ==
    /\ loopPc[t] = "created"
    /\ LoopStep(t, LoopAround)
    /\ UNCHANGED genVars

\* the sleep of line 90 ends and the loop goes round
LoopErrorSleepDone(t) ==
    /\ loopPc[t] = "error_sleep"
    /\ LoopStep(t, LoopAround)
    /\ UNCHANGED genVars

\* the sleep of line 78 ends and generate returns already_generating at
\* once
LoopWakesRejected(t) ==
    /\ loopPc[t] = "sleep"
    /\ sched_running
    /\ GenerateRejected(t)
    /\ LoopStep(t, SleepOrError)

\* the sleep of line 78 ends: generate is awaited (line 82), or the test
\* of line 80 fails and so does that of line 73
LoopWakes(t) ==
    /\ loopPc[t] = "sleep"
    /\ IF sched_running
       THEN GenerateStart(t, sched_config) /\ LoopStep(t, "generate")
       ELSE UNCHANGED genVars /\ LoopStep(t, "exited")

\* the loop after a step of the generate call it awaits: when the call has
\* returned, line 83 and the loop goes round
LoopAwaitsGenerate(t) ==
    /\ loopPc[t] = "generate"
    /\ LoopStep(t, IF pc'[t] = "idle" THEN LoopAround ELSE "generate")

\* GenerateCancelled without the finally clause of line 177
GenerateCancelledLeaks(t) ==
    /\ pc[t] \in InFlight
    /\ is_generating' = is_generating
    /\ pc' = [pc EXCEPT ![t] = "idle"]
    /\ cfg' = [cfg EXCEPT ![t] = NoConfig]
    /\ papers' = [papers EXCEPT ![t] = <<>>]
    /\ UNCHANGED <<errors, last_digest, hasMemory, seen, storage, genClock,
                   result>>

\* CancelledError is raised at the await generate is suspended at (line
\* 77, 87, 95 or 131): it is no Exception, so the handler of line 172 is
\* passed over, the finally clause of line 177 runs and the error leaves
\* generate
GenerateCancelled(t) ==
    /\ pc[t] \in InFlight
    /\ is_generating' = FALSE
    /\ pc' = [pc EXCEPT ![t] = "idle"]
    /\ cfg' = [cfg EXCEPT ![t] = NoConfig]
    /\ papers' = [papers EXCEPT ![t] = <<>>]
    /\ UNCHANGED <<errors, last_digest, hasMemory, seen, storage, genClock,
                   result>>

\* the cancelled task is resumed
CancelStep(t, next) ==
    /\ t \in cancelReq
    /\ cancelReq' = cancelReq \ {t}
    /\ loopPc' = [loopPc EXCEPT ![t] = next]
    /\ schedCall' = [op |-> "loop", noop |-> FALSE]
    /\ UNCHANGED <<sched_running, sched_task, sched_config, schedule_hour>>

\* the task was cancelled before it ran, or in the sleep of line 90, which
\* no try block encloses: the task ends cancelled
CancelOutsideTry(t) ==
    /\ loopPc[t] \in {"created", "error_sleep"}
    /\ CancelStep(t, "cancelled")
    /\ UNCHANGED interrupted
    /\ UNCHANGED genVars

\* CancelledError at the sleep of line 78: lines 85-86 break
CancelInSleep(t) ==
    /\ loopPc[t] = "sleep"
    /\ CancelStep(t, "exited")
    /\ UNCHANGED interrupted
    /\ UNCHANGED genVars

\* CancelledError at the await of line 82: it is raised inside generate,
\* comes out of it and lines 85-86 break
CancelInGenerate(t) ==
    /\ loopPc[t] = "generate"
    /\ GenerateCancelled(t)
    /\ interrupted' = interrupted \cup {[task |-> t, at |-> pc[t]]}
    /\ CancelStep(t, "exited")

(***************************************************************************)
(* SemanticScholarClient.fetch_papers and _fetch_with_retry                *)
(* (sources/semantic_scholar.py).  The log holds one record per request,   *)
(* per response and per sleep.                                             *)
(***************************************************************************)
MaxRetries == 3
MaxItems == 3

\* the items under "data" of a decoded body: one that the loop of lines
\* 76-115 turns into a Paper, or one it raises on (an item that is no
\* dictionary, "authors": null)
ItemLists == SeqsUpTo({"good", "bad"}, MaxItems)

\* the papers appended before the first item the loop raises on
RECURSIVE ParsedBeforeError(_)
ParsedBeforeError(items) ==
    IF items = <<>> \/ Head(items) = "bad" THEN 0
    ELSE 1 + ParsedBeforeError(Tail(items))

\* the records of the log: request number k is sent, it is answered (with
\* the items of the body when it is decoded), a sleep of so many seconds
Requested(k) == [ev |-> "get", n |-> k, kind |-> "", items |-> <<>>]
Responded(k, kind, items) ==
    [ev |-> "response", n |-> k, kind |-> kind, items |-> items]
Slept(seconds) == [ev |-> "sleep", n |-> seconds, kind |-> "", items |-> <<>>]

\* lines 119-124: the exception is caught and logged, papers is returned
S2Return(n) ==
    /\ s2Pc' = "done"
    /\ s2Out' = [status |-> "returned", papers |-> n]

\* fetch_papers is called and the loop of line 141 has no iteration: line
\* 169 returns {"data": []}
S2FetchNoAttempt ==
    /\ s2Pc = "idle"
    /\ max_retries = 0
    /\ S2Return(0)
    /\ UNCHANGED <<max_retries, attempt, last_error, httpLog>>

\* fetch_papers is called: lines 71-73 and 139-143, the first request
S2FetchStart ==
    /\ s2Pc = "idle"
    /\ max_retries > 0
    /\ attempt' = 0
    /\ last_error' = FALSE
    /\ httpLog' = <<Requested(0)>>
    /\ s2Pc' = "get"
    /\ UNCHANGED <<max_retries, s2Out>>

\* RateLimited for a backoff that grows by one second a retry
RateLimitedLinear ==
    /\ s2Pc = "get"
    /\ httpLog' = httpLog \o <<Responded(attempt, "rate_limited", <<>>),
                               Slept(attempt + 1)>>
    /\ s2Pc' = "sleep"
    /\ UNCHANGED <<max_retries, attempt, last_error, s2Out>>

\* the response has status 429: lines 149-156, the sleep is awaited
RateLimited ==
    /\ s2Pc = "get"
    /\ httpLog' = httpLog \o <<Responded(attempt, "rate_limited", <<>>),
                               Slept(2 ^ attempt)>>
    /\ s2Pc' = "sleep"
    /\ UNCHANGED <<max_retries, attempt, last_error, s2Out>>

\* the sleep ends and an attempt remains: lines 157-160 and 141-143
RetryAfterSleep ==
    /\ s2Pc = "sleep"
    /\ attempt + 1 < max_retries
    /\ last_error' = TRUE
    /\ attempt' = attempt + 1
    /\ httpLog' = Append(httpLog, Requested(attempt + 1))
    /\ s2Pc' = "get"
    /\ UNCHANGED <<max_retries, s2Out>>

\* the sleep ends and no attempt remains: line 168 raises last_error, an
\* HTTPStatusError, which line 119 catches
GiveUpAfterSleep ==
    /\ s2Pc = "sleep"
    /\ attempt + 1 >= max_retries
    /\ last_error' = TRUE
    /\ S2Return(0)
    /\ UNCHANGED <<max_retries, attempt, httpLog>>

\* the request fails: client.get raises a transport error, raise_for_status
\* raises on a status other than 429 (line 162) or response.json() raises
\* (line 163); lines 119-122 catch it
RequestFails(kind) ==
    /\ s2Pc = "get"
    /\ kind \in {"transport_error", "http_error", "bad_body"}
    /\ httpLog' = Append(httpLog, Responded(attempt, kind, <<>>))
    /\ S2Return(0)
    /\ UNCHANGED <<max_retries, attempt, last_error>>

\* the response is decoded (lines 162-164) and its items are parsed (lines
\* 74-117); an exception of the parsing is caught at line 121 and the
\* papers appended so far are returned
ResponseParsed(items) ==
    /\ s2Pc = "get"
    /\ httpLog' = Append(httpLog, Responded(attempt, "ok", items))
    /\ S2Return(ParsedBeforeError(items))
    /\ UNCHANGED <<max_retries, attempt, last_error>>

(***************************************************************************)
(* Specifications.                                                         *)
(***************************************************************************)
NextGen ==
    /\ UNCHANGED <<backendVars, sendVars, idVars, historyVars, mergeVars,
                   libVars>>
    /\ \E t \in Tasks :
        \/ GenerateRejected(t)
        \/ \E c \in Configs : GenerateStart(t, c)
        \/ \E fetched \in FetchResults :
              \/ FetchNext(t, fetched)
              \/ FetchLastNoPapers(t, fetched)
              \/ FetchLastNoUnseen(t, fetched)
              \/ FetchLastLlmRaises(t, fetched)
              \/ FetchLastToRank(t, fetched)
        \/ FetchRaises(t)
        \/ RankRaises(t)
        \/ /\ genClock <= MaxClock
           /\ \E ranked \in PermsOfSubseqs(papers[t]) :
                \/ RankCompleted(t, ranked)
                \/ \E recorded \in BOOLEAN :
                        RankRecordRaises(t, ranked, recorded)
                \/ \E torn \in BOOLEAN : RankSaveRaises(t, ranked, torn)

SpecGen ==
    /\ is_generating = FALSE /\ errors = <<>> /\ last_digest = 0
    /\ hasMemory \in BOOLEAN /\ seen = {}
    /\ storage = [d \in Days |-> NoFile] /\ genClock = 1
    /\ pc = [t \in Tasks |-> "idle"] /\ cfg = [t \in Tasks |-> NoConfig]
    /\ papers = [t \in Tasks |-> <<>>] /\ result = NoResult
    /\ sent_json = NoSentFile /\ lastCall = NoCall
    /\ env = NoEnv /\ wallClock = 0 /\ spc = "idle" /\ run = NoRun
    /\ exitCode = "none" /\ runs = 0 /\ genCalls = 0 /\ mailLog = <<>>
    /\ crashLog = <<>> /\ cleanSent = FALSE
    /\ idIn = NotComputed /\ idOut = NotComputed
    /\ fetchLog = NoFetches /\ emitted = {}
    /\ returned = NoneReturned /\ sourcesOn = {} /\ mergedPapers = NotMerged
    /\ selIn = NotComputed /\ selOut = NotComputed
    /\ rankIn = NotComputed /\ rankPos = 0 /\ ranked_papers = <<>>
    /\ rankOut = NotRanked
    /\ qualIn = NotComputed /\ qualOut = NotComputed
    /\ memFile = NoMemoryFile /\ memCall = NoMemoryCall
    /\ max_retries = 0 /\ attempt = 0 /\ last_error = FALSE
    /\ s2Pc = "idle" /\ httpLog = <<>> /\ s2Out = NoS2Result
    /\ inFlight = {} /\ finished = <<>>
    /\ sched_running = FALSE /\ sched_task = 0 /\ sched_config = NoConfig
    /\ schedule_hour = 6 /\ loopPc = [t \in Tasks |-> "none"]
    /\ cancelReq = {} /\ interrupted = {} /\ schedCall = NoSchedCall
    /\ [][NextGen]_vars

NextBackend ==
    /\ UNCHANGED <<genVars, sendVars, idVars, historyVars, mergeVars, libVars>>
    /\ \E b \in Backends :
        \/ \E id \in MarkerIds : CallAlreadySent(b, id)
        \/ \E id \in MarkerIds : CallMarkSent(b, id)
        \/ CallClear(b)
        \/ CallListSent(b)

SpecBackend ==
    /\ is_generating = FALSE /\ errors = <<>> /\ last_digest = 0
    /\ hasMemory = FALSE /\ seen = {}
    /\ storage = [d \in Days |-> NoFile] /\ genClock = 1
    /\ pc = [t \in Tasks |-> "idle"] /\ cfg = [t \in Tasks |-> NoConfig]
    /\ papers = [t \in Tasks |-> <<>>] /\ result = NoResult
    /\ sent_json \in {NoSentFile, CorruptSentFile} /\ lastCall = NoCall
    /\ env = NoEnv /\ wallClock = 0 /\ spc = "idle" /\ run = NoRun
    /\ exitCode = "none" /\ runs = 0 /\ genCalls = 0 /\ mailLog = <<>>
    /\ crashLog = <<>> /\ cleanSent = FALSE
    /\ idIn = NotComputed /\ idOut = NotComputed
    /\ fetchLog = NoFetches /\ emitted = {}
    /\ returned = NoneReturned /\ sourcesOn = {} /\ mergedPapers = NotMerged
    /\ selIn = NotComputed /\ selOut = NotComputed
    /\ rankIn = NotComputed /\ rankPos = 0 /\ ranked_papers = <<>>
    /\ rankOut = NotRanked
    /\ qualIn = NotComputed /\ qualOut = NotComputed
    /\ memFile = NoMemoryFile /\ memCall = NoMemoryCall
    /\ max_retries = 0 /\ attempt = 0 /\ last_error = FALSE
    /\ s2Pc = "idle" /\ httpLog = <<>> /\ s2Out = NoS2Result
    /\ inFlight = {} /\ finished = <<>>
    /\ sched_running = FALSE /\ sched_task = 0 /\ sched_config = NoConfig
    /\ schedule_hour = 6 /\ loopPc = [t \in Tasks |-> "none"]
    /\ cancelReq = {} /\ interrupted = {} /\ schedCall = NoSchedCall
    /\ [][NextBackend]_vars

NextSend ==
    /\ UNCHANGED <<genVars, lastCall, idVars, historyVars, mergeVars, libVars>>
    /\ \/ Tick
       \/ StartConfigError
       \/ StartBadTimezone
       \/ StartStateBackendError
       \/ StartAlreadySent
       \/ StartProceed
       \/ GenerateFails
       \/ GenerateNoPapers
       \/ GenerateEmpty
       \/ GenerateReady
       \/ SendOk
       \/ \E delivered \in BOOLEAN : SendFails(delivered)
       \/ MarkAndExit
       \/ Crash

SpecSend ==
    /\ is_generating = FALSE /\ errors = <<>> /\ last_digest = 0
    /\ hasMemory = FALSE /\ seen = {}
    /\ storage = [d \in Days |-> NoFile] /\ genClock = 1
    /\ pc = [t \in Tasks |-> "idle"] /\ cfg = [t \in Tasks |-> NoConfig]
    /\ papers = [t \in Tasks |-> <<>>] /\ result = NoResult
    /\ sent_json \in {NoSentFile, CorruptSentFile} /\ lastCall = NoCall
    /\ env \in Envs /\ wallClock = 0 /\ spc = "idle" /\ run = NoRun
    /\ exitCode = "none" /\ runs = 0 /\ genCalls = 0 /\ mailLog = <<>>
    /\ crashLog = <<>> /\ cleanSent = FALSE
    /\ idIn = NotComputed /\ idOut = NotComputed
    /\ fetchLog = NoFetches /\ emitted = {}
    /\ returned = NoneReturned /\ sourcesOn = {} /\ mergedPapers = NotMerged
    /\ selIn = NotComputed /\ selOut = NotComputed
    /\ rankIn = NotComputed /\ rankPos = 0 /\ ranked_papers = <<>>
    /\ rankOut = NotRanked
    /\ qualIn = NotComputed /\ qualOut = NotComputed
    /\ memFile = NoMemoryFile /\ memCall = NoMemoryCall
    /\ max_retries = 0 /\ attempt = 0 /\ last_error = FALSE
    /\ s2Pc = "idle" /\ httpLog = <<>> /\ s2Out = NoS2Result
    /\ inFlight = {} /\ finished = <<>>
    /\ sched_running = FALSE /\ sched_task = 0 /\ sched_config = NoConfig
    /\ schedule_hour = 6 /\ loopPc = [t \in Tasks |-> "none"]
    /\ cancelReq = {} /\ interrupted = {} /\ schedCall = NoSchedCall
    /\ [][NextSend]_vars

NextId ==
    /\ UNCHANGED <<genVars, backendVars, sendVars, historyVars, mergeVars,
                   libVars>>
    /\ \/ \E i \in 1..MaxRecipients : SwapRecipients(i)
       \/ \E i \in 1..MaxRecipients : \E k \in 1..MaxStrLen : ChangeCase(i, k)
       \/ ComputeIds

SpecId ==
    /\ is_generating = FALSE /\ errors = <<>> /\ last_digest = 0
    /\ hasMemory = FALSE /\ seen = {}
    /\ storage = [d \in Days |-> NoFile] /\ genClock = 1
    /\ pc = [t \in Tasks |-> "idle"] /\ cfg = [t \in Tasks |-> NoConfig]
    /\ papers = [t \in Tasks |-> <<>>] /\ result = NoResult
    /\ sent_json = NoSentFile /\ lastCall = NoCall
    /\ env = NoEnv /\ wallClock = 0 /\ spc = "idle" /\ run = NoRun
    /\ exitCode = "none" /\ runs = 0 /\ genCalls = 0 /\ mailLog = <<>>
    /\ crashLog = <<>> /\ cleanSent = FALSE
    /\ \E args \in IdArgs : idIn = [a |-> args, b |-> args]
    /\ idOut = NotComputed
    /\ fetchLog = NoFetches /\ emitted = {}
    /\ returned = NoneReturned /\ sourcesOn = {} /\ mergedPapers = NotMerged
    /\ selIn = NotComputed /\ selOut = NotComputed
    /\ rankIn = NotComputed /\ rankPos = 0 /\ ranked_papers = <<>>
    /\ rankOut = NotRanked
    /\ qualIn = NotComputed /\ qualOut = NotComputed
    /\ memFile = NoMemoryFile /\ memCall = NoMemoryCall
    /\ max_retries = 0 /\ attempt = 0 /\ last_error = FALSE
    /\ s2Pc = "idle" /\ httpLog = <<>> /\ s2Out = NoS2Result
    /\ inFlight = {} /\ finished = <<>>
    /\ sched_running = FALSE /\ sched_task = 0 /\ sched_config = NoConfig
    /\ schedule_hour = 6 /\ loopPc = [t \in Tasks |-> "none"]
    /\ cancelReq = {} /\ interrupted = {} /\ schedCall = NoSchedCall
    /\ [][NextId]_vars

NextIdArgs ==
    /\ UNCHANGED <<genVars, backendVars, sendVars, historyVars, mergeVars,
                   libVars>>
    /\ \/ \E dt \in DateTimes : SetWindowStart(dt)
       \/ \E dt \in DateTimes : SetWindowEnd(dt)
       \/ \E subject \in SubjectTemplates : SetSubject(subject)
       \/ ComputeIds

SpecIdArgs ==
    /\ is_generating = FALSE /\ errors = <<>> /\ last_digest = 0
    /\ hasMemory = FALSE /\ seen = {}
    /\ storage = [d \in Days |-> NoFile] /\ genClock = 1
    /\ pc = [t \in Tasks |-> "idle"] /\ cfg = [t \in Tasks |-> NoConfig]
    /\ papers = [t \in Tasks |-> <<>>] /\ result = NoResult
    /\ sent_json = NoSentFile /\ lastCall = NoCall
    /\ env = NoEnv /\ wallClock = 0 /\ spc = "idle" /\ run = NoRun
    /\ exitCode = "none" /\ runs = 0 /\ genCalls = 0 /\ mailLog = <<>>
    /\ crashLog = <<>> /\ cleanSent = FALSE
    /\ \E args \in WindowArgs : idIn = [a |-> args, b |-> args]
    /\ idOut = NotComputed
    /\ fetchLog = NoFetches /\ emitted = {}
    /\ returned = NoneReturned /\ sourcesOn = {} /\ mergedPapers = NotMerged
    /\ selIn = NotComputed /\ selOut = NotComputed
    /\ rankIn = NotComputed /\ rankPos = 0 /\ ranked_papers = <<>>
    /\ rankOut = NotRanked
    /\ qualIn = NotComputed /\ qualOut = NotComputed
    /\ memFile = NoMemoryFile /\ memCall = NoMemoryCall
    /\ max_retries = 0 /\ attempt = 0 /\ last_error = FALSE
    /\ s2Pc = "idle" /\ httpLog = <<>> /\ s2Out = NoS2Result
    /\ inFlight = {} /\ finished = <<>>
    /\ sched_running = FALSE /\ sched_task = 0 /\ sched_config = NoConfig
    /\ schedule_hour = 6 /\ loopPc = [t \in Tasks |-> "none"]
    /\ cancelReq = {} /\ interrupted = {} /\ schedCall = NoSchedCall
    /\ [][NextIdArgs]_vars

NextMerge ==
    /\ UNCHANGED <<genVars, backendVars, sendVars, idVars, historyVars,
                   libVars>>
    /\ \/ \E src \in SourceNames : \E rec \in PaperRecords :
            SourceReturns(src, rec)
       \/ MergeFetched

SpecMerge ==
    /\ is_generating = FALSE /\ errors = <<>> /\ last_digest = 0
    /\ hasMemory = FALSE /\ seen = {}
    /\ storage = [d \in Days |-> NoFile] /\ genClock = 1
    /\ pc = [t \in Tasks |-> "idle"] /\ cfg = [t \in Tasks |-> NoConfig]
    /\ papers = [t \in Tasks |-> <<>>] /\ result = NoResult
    /\ sent_json = NoSentFile /\ lastCall = NoCall
    /\ env = NoEnv /\ wallClock = 0 /\ spc = "idle" /\ run = NoRun
    /\ exitCode = "none" /\ runs = 0 /\ genCalls = 0 /\ mailLog = <<>>
    /\ crashLog = <<>> /\ cleanSent = FALSE
    /\ idIn = NotComputed /\ idOut = NotComputed
    /\ fetchLog = NoFetches /\ emitted = {}
    /\ returned = NoneReturned /\ sourcesOn \in SourceChoices
    /\ mergedPapers = NotMerged
    /\ selIn = NotComputed /\ selOut = NotComputed
    /\ rankIn = NotComputed /\ rankPos = 0 /\ ranked_papers = <<>>
    /\ rankOut = NotRanked
    /\ qualIn = NotComputed /\ qualOut = NotComputed
    /\ memFile = NoMemoryFile /\ memCall = NoMemoryCall
    /\ max_retries = 0 /\ attempt = 0 /\ last_error = FALSE
    /\ s2Pc = "idle" /\ httpLog = <<>> /\ s2Out = NoS2Result
    /\ inFlight = {} /\ finished = <<>>
    /\ sched_running = FALSE /\ sched_task = 0 /\ sched_config = NoConfig
    /\ schedule_hour = 6 /\ loopPc = [t \in Tasks |-> "none"]
    /\ cancelReq = {} /\ interrupted = {} /\ schedCall = NoSchedCall
    /\ [][NextMerge]_vars

NextPipeline ==
    /\ UNCHANGED <<backendVars, sendVars, idVars, mergeVars, libVars>>
    /\ genClock <= MaxPipelineRuns
    /\ \/ \E c \in PipelineConfigs : GenerateStart(1, c) /\ LogStart(c)
       \/ \E fetched \in PipelineFetchResults :
            /\ LogFetch(fetched)
            /\ \/ FetchNext(1, fetched)
               \/ FetchLastNoPapers(1, fetched)
               \/ FetchLastNoUnseen(1, fetched)
               \/ FetchLastLlmRaises(1, fetched)
               \/ FetchLastToRank(1, fetched)
       \/ FetchRaises(1) /\ UNCHANGED historyVars
       \/ RankRaises(1) /\ UNCHANGED historyVars
       \/ \E ranked \in PermsOfSubseqs(papers[1]) :
            \/ RankCompleted(1, ranked) /\ LogDigest(1, ranked)
            \/ RankRecordRaises(1, ranked, FALSE) /\ UNCHANGED historyVars
            \/ RankSaveRaises(1, ranked, FALSE) /\ UNCHANGED historyVars

SpecPipeline ==
    /\ is_generating = FALSE /\ errors = <<>> /\ last_digest = 0
    /\ hasMemory = TRUE /\ seen = {}
    /\ storage = [d \in Days |-> NoFile] /\ genClock = 1
    /\ pc = [t \in Tasks |-> "idle"] /\ cfg = [t \in Tasks |-> NoConfig]
    /\ papers = [t \in Tasks |-> <<>>] /\ result = NoResult
    /\ sent_json = NoSentFile /\ lastCall = NoCall
    /\ env = NoEnv /\ wallClock = 0 /\ spc = "idle" /\ run = NoRun
    /\ exitCode = "none" /\ runs = 0 /\ genCalls = 0 /\ mailLog = <<>>
    /\ crashLog = <<>> /\ cleanSent = FALSE
    /\ idIn = NotComputed /\ idOut = NotComputed
    /\ fetchLog = NoFetches /\ emitted = {}
    /\ returned = NoneReturned /\ sourcesOn = {} /\ mergedPapers = NotMerged
    /\ selIn = NotComputed /\ selOut = NotComputed
    /\ rankIn = NotComputed /\ rankPos = 0 /\ ranked_papers = <<>>
    /\ rankOut = NotRanked
    /\ qualIn = NotComputed /\ qualOut = NotComputed
    /\ memFile = NoMemoryFile /\ memCall = NoMemoryCall
    /\ max_retries = 0 /\ attempt = 0 /\ last_error = FALSE
    /\ s2Pc = "idle" /\ httpLog = <<>> /\ s2Out = NoS2Result
    /\ inFlight = {} /\ finished = <<>>
    /\ sched_running = FALSE /\ sched_task = 0 /\ sched_config = NoConfig
    /\ schedule_hour = 6 /\ loopPc = [t \in Tasks |-> "none"]
    /\ cancelReq = {} /\ interrupted = {} /\ schedCall = NoSchedCall
    /\ [][NextPipeline]_vars

NextSelect ==
    /\ UNCHANGED <<genVars, backendVars, sendVars, idVars, historyVars,
                   mergeVars, rankerVars, qualityVars, memoryVars,
                   schedVars, callVars, retryVars>>
    /\ \/ \E paper \in RankedPapers : RankerReturnsPaper(paper)
       \/ SelectTopPapers

SpecSelect ==
    /\ is_generating = FALSE /\ errors = <<>> /\ last_digest = 0
    /\ hasMemory = FALSE /\ seen = {}
    /\ storage = [d \in Days |-> NoFile] /\ genClock = 1
    /\ pc = [t \in Tasks |-> "idle"] /\ cfg = [t \in Tasks |-> NoConfig]
    /\ papers = [t \in Tasks |-> <<>>] /\ result = NoResult
    /\ sent_json = NoSentFile /\ lastCall = NoCall
    /\ env = NoEnv /\ wallClock = 0 /\ spc = "idle" /\ run = NoRun
    /\ exitCode = "none" /\ runs = 0 /\ genCalls = 0 /\ mailLog = <<>>
    /\ crashLog = <<>> /\ cleanSent = FALSE
    /\ idIn = NotComputed /\ idOut = NotComputed
    /\ fetchLog = NoFetches /\ emitted = {}
    /\ returned = NoneReturned /\ sourcesOn = {} /\ mergedPapers = NotMerged
    /\ \E c \in SelectConfigs : selIn = [ranked_papers |-> <<>>, config |-> c]
    /\ selOut = NotComputed
    /\ rankIn = NotComputed /\ rankPos = 0 /\ ranked_papers = <<>>
    /\ rankOut = NotRanked
    /\ qualIn = NotComputed /\ qualOut = NotComputed
    /\ memFile = NoMemoryFile /\ memCall = NoMemoryCall
    /\ max_retries = 0 /\ attempt = 0 /\ last_error = FALSE
    /\ s2Pc = "idle" /\ httpLog = <<>> /\ s2Out = NoS2Result
    /\ inFlight = {} /\ finished = <<>>
    /\ sched_running = FALSE /\ sched_task = 0 /\ sched_config = NoConfig
    /\ schedule_hour = 6 /\ loopPc = [t \in Tasks |-> "none"]
    /\ cancelReq = {} /\ interrupted = {} /\ schedCall = NoSchedCall
    /\ [][NextSelect]_vars

NextRanker ==
    /\ UNCHANGED <<genVars, backendVars, sendVars, idVars, historyVars,
                   mergeVars, selectVars, qualityVars, memoryVars,
                   schedVars, callVars, retryVars>>
    /\ \/ \E response \in Responses : AddRankInput(response)
       \/ RankNothing
       \/ RankStart
       \/ BatchThenSleep
       \/ SleepDone
       \/ BatchThenReturn

SpecRanker ==
    /\ is_generating = FALSE /\ errors = <<>> /\ last_digest = 0
    /\ hasMemory = FALSE /\ seen = {}
    /\ storage = [d \in Days |-> NoFile] /\ genClock = 1
    /\ pc = [t \in Tasks |-> "idle"] /\ cfg = [t \in Tasks |-> NoConfig]
    /\ papers = [t \in Tasks |-> <<>>] /\ result = NoResult
    /\ sent_json = NoSentFile /\ lastCall = NoCall
    /\ env = NoEnv /\ wallClock = 0 /\ spc = "idle" /\ run = NoRun
    /\ exitCode = "none" /\ runs = 0 /\ genCalls = 0 /\ mailLog = <<>>
    /\ crashLog = <<>> /\ cleanSent = FALSE
    /\ idIn = NotComputed /\ idOut = NotComputed
    /\ fetchLog = NoFetches /\ emitted = {}
    /\ returned = NoneReturned /\ sourcesOn = {} /\ mergedPapers = NotMerged
    /\ selIn = NotComputed /\ selOut = NotComputed
    /\ \E b \in 1..MaxBatchSize : rankIn = [papers |-> <<>>, batch_size |-> b]
    /\ rankPos = 0 /\ ranked_papers = <<>>
    /\ rankOut = NotRanked
    /\ qualIn = NotComputed /\ qualOut = NotComputed
    /\ memFile = NoMemoryFile /\ memCall = NoMemoryCall
    /\ max_retries = 0 /\ attempt = 0 /\ last_error = FALSE
    /\ s2Pc = "idle" /\ httpLog = <<>> /\ s2Out = NoS2Result
    /\ inFlight = {} /\ finished = <<>>
    /\ sched_running = FALSE /\ sched_task = 0 /\ sched_config = NoConfig
    /\ schedule_hour = 6 /\ loopPc = [t \in Tasks |-> "none"]
    /\ cancelReq = {} /\ interrupted = {} /\ schedCall = NoSchedCall
    /\ [][NextRanker]_vars

NextQuality ==
    /\ UNCHANGED <<genVars, backendVars, sendVars, idVars, historyVars,
                   mergeVars, selectVars, rankerVars, memoryVars,
                   schedVars, callVars, retryVars>>
    /\ \/ \E paper \in QualityPapers \cup OtherPapers : AddQualityPaper(paper)
       \/ CallComputeQualityScores

SpecQuality ==
    /\ is_generating = FALSE /\ errors = <<>> /\ last_digest = 0
    /\ hasMemory = FALSE /\ seen = {}
    /\ storage = [d \in Days |-> NoFile] /\ genClock = 1
    /\ pc = [t \in Tasks |-> "idle"] /\ cfg = [t \in Tasks |-> NoConfig]
    /\ papers = [t \in Tasks |-> <<>>] /\ result = NoResult
    /\ sent_json = NoSentFile /\ lastCall = NoCall
    /\ env = NoEnv /\ wallClock = 0 /\ spc = "idle" /\ run = NoRun
    /\ exitCode = "none" /\ runs = 0 /\ genCalls = 0 /\ mailLog = <<>>
    /\ crashLog = <<>> /\ cleanSent = FALSE
    /\ idIn = NotComputed /\ idOut = NotComputed
    /\ fetchLog = NoFetches /\ emitted = {}
    /\ returned = NoneReturned /\ sourcesOn = {} /\ mergedPapers = NotMerged
    /\ selIn = NotComputed /\ selOut = NotComputed
    /\ rankIn = NotComputed /\ rankPos = 0 /\ ranked_papers = <<>>
    /\ rankOut = NotRanked
    /\ \E h \in Ceilings : \E u \in Ceilings :
        qualIn = [papers |-> <<>>, max_h_index |-> h, max_upvotes |-> u]
    /\ qualOut = NotComputed
    /\ memFile = NoMemoryFile /\ memCall = NoMemoryCall
    /\ max_retries = 0 /\ attempt = 0 /\ last_error = FALSE
    /\ s2Pc = "idle" /\ httpLog = <<>> /\ s2Out = NoS2Result
    /\ inFlight = {} /\ finished = <<>>
    /\ sched_running = FALSE /\ sched_task = 0 /\ sched_config = NoConfig
    /\ schedule_hour = 6 /\ loopPc = [t \in Tasks |-> "none"]
    /\ cancelReq = {} /\ interrupted = {} /\ schedCall = NoSchedCall
    /\ [][NextQuality]_vars

NextMemory ==
    /\ UNCHANGED <<is_generating, errors, last_digest, hasMemory, storage,
                   genClock, pc, cfg, papers, result>>
    /\ UNCHANGED <<backendVars, sendVars, idVars, historyVars, mergeVars,
                   selectVars, rankerVars, qualityVars,
                   schedVars, callVars, retryVars>>
    /\ \/ MemoryOpen
       \/ MemoryOpenRaises
       \/ \E id \in MemoryIds : MemoryRecord(id)
       \/ \E id \in MemoryIds : \E torn \in BOOLEAN :
            MemoryRecordSaveRaises(id, torn)
       \/ \E id \in MemoryIds : MemoryIsSeen(id)
       \/ \E ids \in IdLists : MemoryFilterUnseen(ids)
       \/ MemoryClear
       \/ MemoryCount

SpecMemory ==
    /\ is_generating = FALSE /\ errors = <<>> /\ last_digest = 0
    /\ hasMemory = TRUE /\ seen = {}
    /\ storage = [d \in Days |-> NoFile] /\ genClock = 1
    /\ pc = [t \in Tasks |-> "idle"] /\ cfg = [t \in Tasks |-> NoConfig]
    /\ papers = [t \in Tasks |-> <<>>] /\ result = NoResult
    /\ sent_json = NoSentFile /\ lastCall = NoCall
    /\ env = NoEnv /\ wallClock = 0 /\ spc = "idle" /\ run = NoRun
    /\ exitCode = "none" /\ runs = 0 /\ genCalls = 0 /\ mailLog = <<>>
    /\ crashLog = <<>> /\ cleanSent = FALSE
    /\ idIn = NotComputed /\ idOut = NotComputed
    /\ fetchLog = NoFetches /\ emitted = {}
    /\ returned = NoneReturned /\ sourcesOn = {} /\ mergedPapers = NotMerged
    /\ selIn = NotComputed /\ selOut = NotComputed
    /\ rankIn = NotComputed /\ rankPos = 0 /\ ranked_papers = <<>>
    /\ rankOut = NotRanked
    /\ qualIn = NotComputed /\ qualOut = NotComputed
    /\ memFile = NoMemoryFile /\ memCall = NoMemoryCall
    /\ max_retries = 0 /\ attempt = 0 /\ last_error = FALSE
    /\ s2Pc = "idle" /\ httpLog = <<>> /\ s2Out = NoS2Result
    /\ inFlight = {} /\ finished = <<>>
    /\ sched_running = FALSE /\ sched_task = 0 /\ sched_config = NoConfig
    /\ schedule_hour = 6 /\ loopPc = [t \in Tasks |-> "none"]
    /\ cancelReq = {} /\ interrupted = {} /\ schedCall = NoSchedCall
    /\ [][NextMemory]_vars

NextScheduler ==
    /\ UNCHANGED <<backendVars, sendVars, idVars, historyVars, mergeVars,
                   selectVars, rankerVars, qualityVars, memoryVars, callVars,
                   retryVars>>
    /\ \/ \E c \in SchedulerConfigs : \E h \in HourChoices \cup {NoneValue} :
            \/ StartNoop(c, h)
            \/ Start(c, h)
       \/ Stop
       \/ \E t \in Tasks :
            \/ LoopBegins(t)
            \/ LoopErrorSleepDone(t)
            \/ LoopWakesRejected(t)
            \/ LoopWakes(t)
            \/ CancelOutsideTry(t)
            \/ CancelInSleep(t)
            \/ CancelInGenerate(t)
            \/ /\ \/ \E fetched \in SchedulerFetchResults :
                        \/ FetchNext(t, fetched)
                        \/ FetchLastNoPapers(t, fetched)
                        \/ FetchLastNoUnseen(t, fetched)
                        \/ FetchLastLlmRaises(t, fetched)
                        \/ FetchLastToRank(t, fetched)
                  \/ FetchRaises(t)
                  \/ RankRaises(t)
                  \/ /\ genClock <= MaxClock
                     /\ \E ranked \in PermsOfSubseqs(papers[t]) :
                          \/ RankCompleted(t, ranked)
                          \/ RankRecordRaises(t, ranked, TRUE)
                          \/ RankSaveRaises(t, ranked, TRUE)
               /\ LoopAwaitsGenerate(t)

SpecScheduler ==
    /\ is_generating = FALSE /\ errors = <<>> /\ last_digest = 0
    /\ hasMemory = TRUE /\ seen = {}
    /\ storage = [d \in Days |-> NoFile] /\ genClock = 1
    /\ pc = [t \in Tasks |-> "idle"] /\ cfg = [t \in Tasks |-> NoConfig]
    /\ papers = [t \in Tasks |-> <<>>] /\ result = NoResult
    /\ sent_json = NoSentFile /\ lastCall = NoCall
    /\ env = NoEnv /\ wallClock = 0 /\ spc = "idle" /\ run = NoRun
    /\ exitCode = "none" /\ runs = 0 /\ genCalls = 0 /\ mailLog = <<>>
    /\ crashLog = <<>> /\ cleanSent = FALSE
    /\ idIn = NotComputed /\ idOut = NotComputed
    /\ fetchLog = NoFetches /\ emitted = {}
    /\ returned = NoneReturned /\ sourcesOn = {} /\ mergedPapers = NotMerged
    /\ selIn = NotComputed /\ selOut = NotComputed
    /\ rankIn = NotComputed /\ rankPos = 0 /\ ranked_papers = <<>>
    /\ rankOut = NotRanked
    /\ qualIn = NotComputed /\ qualOut = NotComputed
    /\ memFile = NoMemoryFile /\ memCall = NoMemoryCall
    /\ max_retries = 0 /\ attempt = 0 /\ last_error = FALSE
    /\ s2Pc = "idle" /\ httpLog = <<>> /\ s2Out = NoS2Result
    /\ inFlight = {} /\ finished = <<>>
    /\ sched_running = FALSE /\ sched_task = 0 /\ sched_config = NoConfig
    /\ schedule_hour \in HourChoices /\ loopPc = [t \in Tasks |-> "none"]
    /\ cancelReq = {} /\ interrupted = {} /\ schedCall = NoSchedCall
    /\ [][NextScheduler]_vars

NextCalls ==
    /\ UNCHANGED <<genVars, backendVars, sendVars, idVars, historyVars,
                   mergeVars, selectVars, qualityVars, memoryVars, schedVars,
                   retryVars>>
    /\ \/ \E response \in CallResponses : AddCallInput(response)
       \/ CallsNone
       \/ CallsStart
       \/ \E i \in 1..MaxRankInput : CallFinishes(i)
       \/ GatherThenSleep
       \/ SleepThenGather
       \/ GatherThenReturn

SpecCalls ==
    /\ is_generating = FALSE /\ errors = <<>> /\ last_digest = 0
    /\ hasMemory = FALSE /\ seen = {}
    /\ storage = [d \in Days |-> NoFile] /\ genClock = 1
    /\ pc = [t \in Tasks |-> "idle"] /\ cfg = [t \in Tasks |-> NoConfig]
    /\ papers = [t \in Tasks |-> <<>>] /\ result = NoResult
    /\ sent_json = NoSentFile /\ lastCall = NoCall
    /\ env = NoEnv /\ wallClock = 0 /\ spc = "idle" /\ run = NoRun
    /\ exitCode = "none" /\ runs = 0 /\ genCalls = 0 /\ mailLog = <<>>
    /\ crashLog = <<>> /\ cleanSent = FALSE
    /\ idIn = NotComputed /\ idOut = NotComputed
    /\ fetchLog = NoFetches /\ emitted = {}
    /\ returned = NoneReturned /\ sourcesOn = {} /\ mergedPapers = NotMerged
    /\ selIn = NotComputed /\ selOut = NotComputed
    /\ \E b \in 1..MaxBatchSize : rankIn = [papers |-> <<>>, batch_size |-> b]
    /\ rankPos = 0 /\ ranked_papers = <<>>
    /\ rankOut = NotRanked
    /\ qualIn = NotComputed /\ qualOut = NotComputed
    /\ memFile = NoMemoryFile /\ memCall = NoMemoryCall
    /\ max_retries = 0 /\ attempt = 0 /\ last_error = FALSE
    /\ s2Pc = "idle" /\ httpLog = <<>> /\ s2Out = NoS2Result
    /\ sched_running = FALSE /\ sched_task = 0 /\ sched_config = NoConfig
    /\ schedule_hour = 6 /\ loopPc = [t \in Tasks |-> "none"]
    /\ cancelReq = {} /\ interrupted = {} /\ schedCall = NoSchedCall
    /\ inFlight = {} /\ finished = <<>>
    /\ [][NextCalls]_vars

NextRetry ==
    /\ UNCHANGED <<genVars, backendVars, sendVars, idVars, historyVars,
                   mergeVars, selectVars, rankerVars, qualityVars, memoryVars,
                   schedVars, callVars>>
    /\ \/ S2FetchNoAttempt
       \/ S2FetchStart
       \/ RateLimited
       \/ RetryAfterSleep
       \/ GiveUpAfterSleep
       \/ \E kind \in {"transport_error", "http_error", "bad_body"} :
            RequestFails(kind)
       \/ \E items \in ItemLists : ResponseParsed(items)

SpecRetry ==
    /\ is_generating = FALSE /\ errors = <<>> /\ last_digest = 0
    /\ hasMemory = FALSE /\ seen = {}
    /\ storage = [d \in Days |-> NoFile] /\ genClock = 1
    /\ pc = [t \in Tasks |-> "idle"] /\ cfg = [t \in Tasks |-> NoConfig]
    /\ papers = [t \in Tasks |-> <<>>] /\ result = NoResult
    /\ sent_json = NoSentFile /\ lastCall = NoCall
    /\ env = NoEnv /\ wallClock = 0 /\ spc = "idle" /\ run = NoRun
    /\ exitCode = "none" /\ runs = 0 /\ genCalls = 0 /\ mailLog = <<>>
    /\ crashLog = <<>> /\ cleanSent = FALSE
    /\ idIn = NotComputed /\ idOut = NotComputed
    /\ fetchLog = NoFetches /\ emitted = {}
    /\ returned = NoneReturned /\ sourcesOn = {} /\ mergedPapers = NotMerged
    /\ selIn = NotComputed /\ selOut = NotComputed
    /\ rankIn = NotComputed /\ rankPos = 0 /\ ranked_papers = <<>>
    /\ rankOut = NotRanked
    /\ qualIn = NotComputed /\ qualOut = NotComputed
    /\ memFile = NoMemoryFile /\ memCall = NoMemoryCall
    /\ sched_running = FALSE /\ sched_task = 0 /\ sched_config = NoConfig
    /\ schedule_hour = 6 /\ loopPc = [t \in Tasks |-> "none"]
    /\ cancelReq = {} /\ interrupted = {} /\ schedCall = NoSchedCall
    /\ inFlight = {} /\ finished = <<>>
    /\ max_retries \in 0..MaxRetries /\ attempt = 0 /\ last_error = FALSE
    /\ s2Pc = "idle" /\ httpLog = <<>> /\ s2Out = NoS2Result
    /\ [][NextRetry]_vars

(***************************************************************************)
(* Properties of DigestGenerator.generate (under SpecGen).                 *)
(***************************************************************************)
Running == {t \in Tasks : pc[t] \in InFlight}

\* the step is the return of a rejected call of caller t
Rejected(t) ==
    /\ pc[t] = "idle" /\ pc' = pc
    /\ result' # result
    /\ result' = [status |-> "already_generating"]

\* C1: at most one generate call is between taking is_generating and
\* releasing it, and a call that begins while another one is in flight
\* returns already_generating at once, without reaching the await of any
\* source fetch.
C1_SingleFlight ==
    /\ [](Cardinality(Running) <= 1)
    /\ [][\A t \in Tasks :
            (pc[t] = "idle" /\ Running # {})
            => /\ pc'[t] = "idle"
               /\ (pc' = pc /\ result' # result)
                    => result'.status = "already_generating"]_vars

\* a run is suspended at the ranking await and the call of another caller
\* has been rejected
C1_Witness ==
    \E t \in Tasks :
        /\ pc[t] = "rank"
        /\ result.status = "already_generating"

\* C2: a call rejected with already_generating leaves is_generating true
\* and leaves errors, last_digest, the seen-paper memory and the digest
\* storage as they were.
C2_RejectedCallChangesNothing ==
    [][\A t \in Tasks :
        Rejected(t)
        => /\ is_generating /\ is_generating'
           /\ errors' = errors
           /\ last_digest' = last_digest
           /\ seen' = seen
           /\ storage' = storage]_vars

\* a call was rejected while a digest of an earlier run is stored and a
\* later run is in flight
C2_Witness ==
    \E t \in Tasks :
        /\ result.status = "already_generating"
        /\ pc[t] \in InFlight
        /\ is_generating
        /\ last_digest # 0
        /\ \E d \in Days : storage[d].exists

\* C3: whenever a run of generate returns (completed, business error or
\* caught exception) is_generating is false right after the return, so the
\* flag is never held without a run in flight.
C3_FlagReleasedOnReturn ==
    /\ [][\A t \in Tasks :
            (pc[t] \in InFlight /\ pc'[t] = "idle") => ~is_generating']_vars
    /\ [](is_generating => Running # {})

\* a run completed, a later run ended in an error and the flag is free
C3_Witness ==
    /\ last_digest # 0
    /\ result.status = "error"
    /\ errors # <<>>
    /\ ~is_generating

\* C4: a step of the pipeline that raises an unexpected exception makes
\* generate return status error with the exception message in errors, leaves
\* last_digest unchanged and leaves no file in storage that was not there,
\* with the same content, before.
C4_NoDigestOnException ==
    [][\A t \in Tasks :
        (pc[t] \in InFlight /\ errors' = Append(errors, ExceptionMessage))
        => /\ pc'[t] = "idle"
           /\ result' = [status |-> "error"]
           /\ last_digest' = last_digest
           /\ \A d \in Days : storage'[d].exists => storage'[d] = storage[d]]_vars

(***************************************************************************)
(* Properties of the send pipeline (under SpecSend).                       *)
(***************************************************************************)
\* an invocation begins whose configuration loads, whose timezone is known
\* and whose state backend is the local file
RunBegins ==
    /\ runs' = runs + 1
    /\ LoadConfigOk(env)
    /\ env.tz_known
    /\ ~env.state_s3_uri

SentIds(file) == Range(LoadState(file))

Delivered(entry) == entry.outcome \in {"ok", "error_after_delivery"}

\* C5: when already_sent is true for the identity the invocation computes,
\* the invocation generates no digest, calls no Email Provider, writes no
\* state and exits with status 0.
C5_AlreadySentIsNoOp ==
    [][(RunBegins /\ AlreadySent(sent_json, RunDigestId(env, wallClock)))
        => /\ spc' = "idle"
           /\ exitCode' = 0
           /\ genCalls' = genCalls
           /\ mailLog' = mailLog
           /\ sent_json' = sent_json]_vars

\* an invocation found its identity marked by an earlier one and exited 0
C5_Witness ==
    /\ run.outcome = "skipped"
    /\ exitCode = 0
    /\ run.digest_id \in SentIds(sent_json)
    /\ genCalls < runs

\* C6: after an invocation that delivered, marked its identity and exited
\* 0, every later invocation under the same configuration finds the
\* identity already sent and skips, so that no second email is delivered.
C6_RetriggerSkips ==
    [][(cleanSent /\ RunBegins)
        => /\ run'.outcome = "skipped"
           /\ spc' = "idle"
           /\ mailLog' = mailLog]_vars

\* C7: the file of sent identities changes only in the step that follows a
\* send that returned without error in the same invocation, or in the step
\* that finds the digest empty; a send that raises EmailSendError ends the
\* invocation with exit status 1 and leaves the sent identities as they were.
C7_MarkOnlyAfterSend ==
    [][/\ (sent_json' # sent_json)
            => \/ spc = "mark" /\ run.sent
                    /\ mailLog # <<>>
                    /\ mailLog[Len(mailLog)] =
                            [id |-> run.digest_id, outcome |-> "ok"]
               \/ spc = "generate" /\ run'.outcome = "empty"
       /\ (spc = "send" /\ mailLog' # mailLog
                /\ mailLog'[Len(mailLog')].outcome # "ok")
            => /\ spc' = "idle"
               /\ exitCode' = 1
               /\ SentIds(sent_json') = SentIds(sent_json)]_vars

\* one invocation delivered and marked its identity, a later one failed in
\* send and exited 1 with its identity unmarked
C7_Witness ==
    /\ cleanSent
    /\ run.outcome = "send_failed"
    /\ exitCode = 1
    /\ run.digest_id \notin SentIds(sent_json)

\* C8: for one identity the Email Provider is called at most once as long
\* as no invocation crashed, and the identity is delivered a second time
\* only after an invocation for it crashed between delivery and mark_sent.
C8_AtMostOncePerIdentity ==
    \A i, j \in DOMAIN mailLog :
        (i < j /\ mailLog[i].id = mailLog[j].id)
        => /\ crashLog # <<>>
           /\ (Delivered(mailLog[i]) /\ Delivered(mailLog[j]))
                => \E k \in DOMAIN crashLog :
                        /\ crashLog[k].id = mailLog[i].id
                        /\ crashLog[k].at = "mark"

SameLetter(c, d) ==
    \/ c = d
    \/ IsUpper(c) /\ d = c + 32
    \/ IsUpper(d) /\ c = d + 32

SameUpToCase(a, b) ==
    /\ Len(a) = Len(b)
    /\ \A k \in DOMAIN a : SameLetter(a[k], b[k])

\* r and s hold the same addresses up to their order and their letter case
SameUpToOrderAndCase(r, s) ==
    /\ Len(r) = Len(s)
    /\ \E p \in [DOMAIN r -> DOMAIN s] :
        /\ IsInjective(p)
        /\ \A i \in DOMAIN r : SameUpToCase(r[i], s[p[i]])

\* C10: two calls of compute_digest_id whose recipient lists are the same
\* up to order and letter case, the other arguments being equal, return the
\* same identity.
C10_RecipientOrderAndCase ==
    (/\ idOut # NotComputed
     /\ SameUpToOrderAndCase(idIn.a.recipients, idIn.b.recipients)
     /\ idIn.a.window_start = idIn.b.window_start
     /\ idIn.a.window_end = idIn.b.window_end
     /\ idIn.a.subject_template = idIn.b.subject_template)
    => idOut.a = idOut.b

\* the two calls got recipient lists that differ both in order and in case
\* and returned one identity
C10_Witness ==
    /\ idOut # NotComputed
    /\ idOut.a = idOut.b
    /\ Len(idIn.a.recipients) = 2
    /\ Lower(idIn.a.recipients[1]) = Lower(idIn.b.recipients[2])
    /\ idIn.a.recipients[1] # idIn.b.recipients[2]
    /\ Lower(idIn.a.recipients[1]) # Lower(idIn.a.recipients[2])

(***************************************************************************)
(* Properties of compute_digest_id (under SpecIdArgs).                     *)
(***************************************************************************)
\* C11 as stated: two calls whose window_start, window_end or subject
\* template differ return different identities.
C11_AnyChangeChangesIdentity ==
    (/\ idOut # NotComputed
     /\ \/ idIn.a.window_start # idIn.b.window_start
        \/ idIn.a.window_end # idIn.b.window_end
        \/ idIn.a.subject_template # idIn.b.subject_template)
    => idOut.a # idOut.b

\* C11, amended: two calls whose window_start or window_end differ, or
\* whose subject templates differ after the removal of leading and trailing
\* whitespace, return different identities.
C11_TrimmedChangeChangesIdentity ==
    (/\ idOut # NotComputed
     /\ \/ idIn.a.window_start # idIn.b.window_start
        \/ idIn.a.window_end # idIn.b.window_end
        \/ Strip(idIn.a.subject_template) # Strip(idIn.b.subject_template))
    => idOut.a # idOut.b

\* the two calls got window starts that read the same on the wall clock in
\* two timezones, and nothing else differs; the identities differ
C11_Witness ==
    /\ idOut # NotComputed
    /\ idIn.a.window_start # idIn.b.window_start
    /\ idIn.a.window_start.utc + idIn.a.window_start.off
            = idIn.b.window_start.utc + idIn.b.window_start.off
    /\ idIn.a.window_end = idIn.b.window_end
    /\ idIn.a.subject_template = idIn.b.subject_template
    /\ idOut.a # idOut.b

(***************************************************************************)
(* Further properties of the send pipeline (under SpecSend).               *)
(***************************************************************************)
\* C12: an invocation whose generated digest has no papers marks its
\* identity sent, calls no Email Provider and exits with status 0; a later
\* invocation that computes the same identity is skipped.
C12_EmptyDigestIsMarked ==
    /\ [][(spc = "generate" /\ run'.outcome = "empty")
            => /\ AlreadySent(sent_json', run.digest_id)
               /\ mailLog' = mailLog
               /\ exitCode' = 0
               /\ spc' = "idle"]_vars
    /\ [][(run.outcome = "empty" /\ RunBegins
                /\ RunDigestId(env, wallClock) = run.digest_id)
            => run'.outcome = "skipped"]_vars

\* an invocation found its digest empty and a later one with the same
\* identity was skipped; no email was ever sent
C12_Witness ==
    /\ run.outcome = "skipped"
    /\ exitCode = 0
    /\ runs = 2
    /\ genCalls = 1
    /\ mailLog = <<>>
    /\ crashLog = <<>>
    /\ run.digest_id \in SentIds(sent_json)

\* C13: an invocation whose generation ended in the business condition "No
\* papers fetched from any source" exits with status 0.
C13_NoPapersExitsZero ==
    [][(spc = "generate" /\ run'.outcome = "no_papers_fetched")
        => exitCode' = 0]_vars

\* C14: with an S3 state URI configured the invocation exits with status 1
\* at the already_sent check: nothing is generated, sent or marked, then or
\* ever.
C14_RemoteBackendIsFatal ==
    /\ [][(runs' = runs + 1 /\ LoadConfigOk(env) /\ env.tz_known
                /\ env.state_s3_uri)
            => /\ spc' = "idle"
               /\ exitCode' = 1
               /\ genCalls' = genCalls
               /\ mailLog' = mailLog
               /\ sent_json' = sent_json]_vars
    /\ [](env.state_s3_uri
            => genCalls = 0 /\ mailLog = <<>> /\ SentIds(sent_json) = {})

\* two invocations under an S3 state URI have both ended with status 1
C14_Witness ==
    /\ env.state_s3_uri
    /\ run.outcome = "state_backend_error"
    /\ exitCode = 1
    /\ runs = 2
    /\ genCalls = 0

(***************************************************************************)
(* Properties of the fetch phase (under SpecMerge).                        *)
(***************************************************************************)
RECURSIVE Concat(_, _)
Concat(results, k) ==
    IF k > Len(SourceOrder) THEN <<>>
    ELSE (IF SourceOrder[k] \in EnabledSources([sources |-> sourcesOn])
          THEN results[SourceOrder[k]] ELSE <<>>) \o Concat(results, k + 1)

\* every paper returned by an enabled source, in the order arXiv,
\* HuggingFace, Semantic Scholar
Sightings == Concat(returned, 1)

\* the position of the first sighting of an ID
FirstSighting(id) ==
    CHOOSE i \in DOMAIN Sightings :
        /\ Sightings[i].arxiv_id = id
        /\ \A j \in 1..(i - 1) : Sightings[j].arxiv_id # id

\* the first value other than None that a field takes among the sightings
\* of an ID, None if there is none
FirstNonNull(id, field) ==
    LET at == {i \in DOMAIN Sightings : /\ Sightings[i].arxiv_id = id
                                        /\ Sightings[i][field] # NoneValue}
    IN  IF at = {} THEN NoneValue
        ELSE Sightings[CHOOSE i \in at : \A j \in at : i <= j][field]

C19_FirstNonNullFields ==
    mergedPapers # NotMerged
    => \A i \in DOMAIN mergedPapers :
        /\ mergedPapers[i].author_h_indices
            = FirstNonNull(mergedPapers[i].arxiv_id, "author_h_indices")
        /\ mergedPapers[i].huggingface_upvotes
            = FirstNonNull(mergedPapers[i].arxiv_id, "huggingface_upvotes")

(***************************************************************************)
(* Properties of repeated generate runs on one memory (under               *)
(* SpecPipeline).                                                          *)
(***************************************************************************)
\* the step is the return of a completed run
RunCompletes ==
    /\ pc[1] = "rank"
    /\ pc'[1] = "idle"
    /\ result'.status = "completed"

\* the papers of the digest the step saves
DigestPapers == Range(storage'[DayOf(genClock)].papers)

\* the step is a return with the one message msg in errors
ReturnsError(msg) ==
    /\ pc[1] \in InFlight
    /\ pc'[1] = "idle"
    /\ result'.status = "error"
    /\ errors' = <<msg>>

\* every enabled source of the run has returned after the step
AllReturned == fetchLog'.returned = Cardinality(EnabledSources(cfg[1]))

\* C15: with a memory attached, a completed run with exclude_seen true puts
\* no paper into its digest that the digest of an earlier completed run on
\* the same memory held.
C15_NoRepeatAcrossRuns ==
    [][(RunCompletes /\ hasMemory /\ cfg[1].exclude_seen)
        => DigestPapers \cap emitted = {}]_vars

\* a completed run with exclude_seen true has fetched a paper that an
\* earlier digest held, and its own digest holds another paper
C15_Witness ==
    /\ pc[1] = "idle"
    /\ result.status = "completed"
    /\ hasMemory
    /\ fetchLog.exclude_seen
    /\ storage[DayOf(last_digest)].papers # <<>>
    /\ \E p \in Range(fetchLog.merged) :
        /\ p \in emitted
        /\ p \notin Range(storage[DayOf(last_digest)].papers)

\* C16: with a memory attached, a completed run leaves in memory what was
\* there before and the IDs of the papers of its digest, nothing else.
C16_RecordsExactlyDigest ==
    [][(RunCompletes /\ hasMemory) => seen' = seen \cup DigestPapers]_vars

\* a completed run fetched a paper that is in neither its digest nor the
\* memory
C16_Witness ==
    /\ pc[1] = "idle"
    /\ result.status = "completed"
    /\ hasMemory
    /\ storage[DayOf(last_digest)].papers # <<>>
    /\ Range(storage[DayOf(last_digest)].papers) \subseteq seen
    /\ \E p \in Range(fetchLog.merged) : p \notin seen

\* C17: the papers that go on to ranking are the merged papers whose ID is
\* not in memory when a memory is attached and exclude_seen is true, and all
\* merged papers otherwise; total_papers_fetched of the digest is their
\* number; the run returns "No unseen papers after filtering" exactly when
\* the filter applies to a non-empty merged list and leaves nothing, and
\* then nothing is ranked, saved or recorded.
C17_FilterBeforeRanking ==
    [][/\ (Fetching(1) /\ pc'[1] = "rank")
            => papers'[1]
                = IF hasMemory /\ cfg[1].exclude_seen
                  THEN SelectSeq(fetchLog'.merged, LAMBDA p : p \notin seen)
                  ELSE fetchLog'.merged
       /\ RunCompletes
            => storage'[DayOf(genClock)].total_papers_fetched = Len(papers[1])
       /\ Fetching(1)
            => (ReturnsError("No unseen papers after filtering")
                <=> /\ AllReturned
                    /\ fetchLog'.merged # <<>>
                    /\ hasMemory /\ cfg[1].exclude_seen
                    /\ Range(fetchLog'.merged) \subseteq seen)
       /\ ReturnsError("No unseen papers after filtering")
            => /\ Fetching(1)
               /\ UNCHANGED <<storage, seen, last_digest, genClock>>]_vars

\* a run with exclude_seen true is at ranking with fewer papers than were
\* merged
C17_Witness ==
    /\ pc[1] = "rank"
    /\ hasMemory
    /\ cfg[1].exclude_seen
    /\ papers[1] # <<>>
    /\ Len(papers[1]) < Len(fetchLog.merged)

\* C20: a run returns "No papers fetched from any source" exactly when
\* every enabled source has returned and none returned a paper; then the
\* storage, the memory and last_digest are as before.
C20_NoPapersIffAllEmpty ==
    [][/\ Fetching(1)
            => (ReturnsError("No papers fetched from any source")
                <=> (AllReturned /\ ~fetchLog'.nonempty))
       /\ ReturnsError("No papers fetched from any source")
            => /\ Fetching(1)
               /\ UNCHANGED <<storage, seen, last_digest>>]_vars

\* two sources returned no papers and the run ended with the message, after
\* an earlier run had saved a digest
C20_Witness ==
    /\ pc[1] = "idle"
    /\ result.status = "error"
    /\ errors = <<"No papers fetched from any source">>
    /\ fetchLog.returned = 2
    /\ ~fetchLog.nonempty
    /\ last_digest # 0
    /\ seen # {}

(***************************************************************************)
(* Properties of the selection of the digest papers (under SpecSelect).    *)
(***************************************************************************)
\* C21: the digest holds at most top_n papers, the first min(top_n, r) of
\* the r ranked papers in their final order.
C21_AtMostTopN ==
    selOut # NotComputed
    => /\ Len(selOut.top_papers) <= selIn.config.top_n
       /\ Len(selOut.top_papers)
            = Min(selIn.config.top_n, Len(selOut.ranked_papers))
       /\ \A i \in DOMAIN selOut.top_papers :
            selOut.top_papers[i] = selOut.ranked_papers[i]

\* C22: every paper of the digest has its quality_score set, and the digest
\* is in descending order of quality_score.
C22_DigestOrderedByQuality ==
    selOut # NotComputed
    => /\ \A i \in DOMAIN selOut.top_papers :
            selOut.top_papers[i].quality_score # NoneValue
       /\ \A i, j \in DOMAIN selOut.top_papers :
            i < j => selOut.top_papers[i].quality_score
                        >= selOut.top_papers[j].quality_score

\* the name q, in any casing, is a part of the name a
NameWithin(q, a) ==
    \E i \in 0..(Len(a) - Len(q)) :
        SameUpToCase(q, SubSeq(a, i + 1, i + Len(q)))

\* paper has an author whose name contains a priority name
IsPriorityPaper(paper) ==
    \E a \in Range(paper.authors) :
        \E q \in Range(selIn.config.priority_authors) : NameWithin(q, a)

\* C23: with priority authors configured every paper with a matching author
\* has its score multiplied by author_boost once, every other paper keeps
\* its score, and the papers are in descending order of the new scores; the
\* digest is the head of that list.
C23_BoostOnceThenSort ==
    (selOut # NotComputed /\ selIn.config.priority_authors # <<>>)
    => /\ Len(selOut.ranked_papers) = Len(selIn.ranked_papers)
       /\ \A k \in DOMAIN selIn.ranked_papers :
            \E i \in DOMAIN selOut.ranked_papers :
                /\ selOut.ranked_papers[i].arxiv_id = k
                /\ selOut.ranked_papers[i].authors
                    = selIn.ranked_papers[k].authors
                /\ selOut.ranked_papers[i].relevance_score
                    = IF IsPriorityPaper(selIn.ranked_papers[k])
                      THEN selIn.ranked_papers[k].relevance_score
                            * selIn.config.author_boost
                      ELSE selIn.ranked_papers[k].relevance_score
       /\ \A i, j \in DOMAIN selOut.ranked_papers :
            i < j => selOut.ranked_papers[i].relevance_score
                        >= selOut.ranked_papers[j].relevance_score
       /\ \A i \in DOMAIN selOut.top_papers :
            selOut.top_papers[i] = selOut.ranked_papers[i]

\* a paper with two authors that match two priority names was behind a
\* paper without a match, is boosted once and heads the digest
C23_Witness ==
    /\ selOut # NotComputed
    /\ Len(selIn.config.priority_authors) = 2
    /\ Len(selIn.ranked_papers) = 2
    /\ ~IsPriorityPaper(selIn.ranked_papers[1])
    /\ Len(selIn.ranked_papers[2].authors) = 2
    /\ \A a \in Range(selIn.ranked_papers[2].authors) :
        \A q \in Range(selIn.config.priority_authors) : NameWithin(q, a)
    /\ selIn.ranked_papers[1].relevance_score
        >= selIn.ranked_papers[2].relevance_score
    /\ selOut.top_papers # <<>>
    /\ selOut.top_papers[1].arxiv_id = 2
    /\ selOut.top_papers[1].relevance_score
        = 2 * selIn.ranked_papers[2].relevance_score

(***************************************************************************)
(* Properties of PaperRanker (under SpecRanker).                           *)
(***************************************************************************)
\* rank_papers has returned
Ranked == rankOut.status = "returned"

\* the answers for which the scoring call of a paper raises
RaisingKinds == {"score_null", "not_object", "llm_error"}

\* C24: for an answer that is malformed JSON, has a score that is not a
\* number, or lacks the keys, rank_paper does not raise and sets the score
\* 5.0 and the reason "Unable to rank".
C24_ParseFailureFallsBack ==
    \A k \in DOMAIN rankIn.papers :
        rankIn.papers[k].response.kind
            \in {"malformed", "score_text", "score_null", "missing_keys"}
        => LET r == RankPaper(rankIn.papers[k], rankIn.papers[k].response)
           IN  /\ ~r.raised
               /\ r.relevance_score = FallbackScore
               /\ r.relevance_reason = "Unable to rank"

\* C25: rank_papers returns the input papers whose scoring call did not
\* raise, each of them once and no other paper.
C25_DropsOnlyRaisingPapers ==
    Ranked
    => /\ \A k \in DOMAIN rankIn.papers :
            Cardinality({i \in DOMAIN rankOut.papers :
                            rankOut.papers[i].arxiv_id = k})
                = IF rankIn.papers[k].response.kind \in RaisingKinds
                  THEN 0 ELSE 1
       /\ \A i \in DOMAIN rankOut.papers :
            rankOut.papers[i].arxiv_id \in DOMAIN rankIn.papers

\* the first call of the first batch raised, and the second paper of that
\* batch and the paper of the next batch are returned
C25_Witness ==
    /\ Ranked
    /\ rankIn.batch_size = 2
    /\ Len(rankIn.papers) = 3
    /\ rankIn.papers[1].response.kind \in RaisingKinds
    /\ {rankOut.papers[i].arxiv_id : i \in DOMAIN rankOut.papers} = {2, 3}

\* C26: the list rank_papers returns is in non-increasing order of
\* relevance_score, and papers of equal score are in their input order.
C26_SortedStable ==
    Ranked
    => \A i, j \in DOMAIN rankOut.papers :
        i < j => \/ rankOut.papers[i].relevance_score
                        > rankOut.papers[j].relevance_score
                 \/ /\ rankOut.papers[i].relevance_score
                        = rankOut.papers[j].relevance_score
                    /\ rankOut.papers[i].arxiv_id
                        < rankOut.papers[j].arxiv_id

\* the first input paper has the lowest score and ends up last, behind two
\* papers of equal score
C26_Witness ==
    /\ Ranked
    /\ Len(rankOut.papers) = 3
    /\ rankOut.papers[3].arxiv_id = 1
    /\ rankOut.papers[1].relevance_score = rankOut.papers[2].relevance_score
    /\ rankOut.papers[2].relevance_score > rankOut.papers[3].relevance_score

(***************************************************************************)
(* Properties of the Quality Blender (under SpecQuality).                  *)
(***************************************************************************)
\* paper k has a quality_score after the call
Scored(k) == qualOut # NotComputed /\ qualOut.quality_score[k] # <<>>

\* relevance_score <= quality_score <= 1.2 * relevance_score for paper k
WithinBoost(k) ==
    LET q == qualOut.quality_score[k][1]
        r == qualIn.papers[k].relevance_score
    IN  /\ r * q.den <= q.num
        /\ 10 * q.num <= 12 * r * q.den

\* C27 as stated: every score the blender sets lies between the relevance
\* score and 1.2 times the relevance score.
C27_BoostBetween0And20Percent ==
    \A k \in DOMAIN qualIn.papers : Scored(k) => WithinBoost(k)

\* C27: every score the blender sets for a paper whose relevance_score is
\* not negative lies between the relevance score and 1.2 times the
\* relevance score, whatever the ceilings.
C27_BoostBoundedForNonNegative ==
    \A k \in DOMAIN qualIn.papers :
        (Scored(k) /\ qualIn.papers[k].relevance_score >= 0)
        => WithinBoost(k)

\* both signals of a paper exceed the ceilings given to the call, and its
\* score is 1.2 times its relevance score
C27_Witness ==
    /\ qualOut # NotComputed
    /\ Len(qualIn.papers) = 2
    /\ qualIn.max_h_index = <<1>>
    /\ qualIn.max_upvotes = <<1>>
    /\ qualIn.papers[1].relevance_score = 2
    /\ qualIn.papers[1].author_h_indices = <<2>>
    /\ qualIn.papers[1].huggingface_upvotes.value = <<2>>
    /\ Scored(1)
    /\ 10 * qualOut.quality_score[1][1].num
        = 24 * qualOut.quality_score[1][1].den

\* C28: a paper without author h-indices and without upvotes, or with zero
\* upvotes, has a quality_score equal to its relevance_score after the
\* call.
C28_NoSignalsNoBoost ==
    qualOut # NotComputed
    => \A k \in DOMAIN qualIn.papers :
        (/\ qualIn.papers[k].author_h_indices = <<>>
         /\ qualIn.papers[k].huggingface_upvotes.value \in {<<>>, <<0>>})
        => /\ qualOut.quality_score[k] # <<>>
           /\ qualOut.quality_score[k][1].num
                = qualIn.papers[k].relevance_score
                    * qualOut.quality_score[k][1].den

(***************************************************************************)
(* Properties of PaperMemory (under SpecMemory).                           *)
(***************************************************************************)
\* C29: record of an ID that is in memory leaves the set of seen IDs and
\* what count() returns as they were.
C29_RecordIdempotent ==
    [][(memCall'.op = "record" /\ memCall'.arg \in seen)
        => /\ seen' = seen
           /\ Count(seen') = Count(seen)]_vars

\* record was called with an ID that record had put into memory, while
\* another ID is not in memory
C29_Witness ==
    /\ memCall.op = "record"
    /\ memCall.known
    /\ ~memCall.raised
    /\ memCall.arg \in seen
    /\ Count(seen) = 1
    /\ memFile = SavedMemory(seen)

\* C30: filter_unseen returns the given IDs that are not in memory and
\* changes neither the set of seen IDs nor the file.
C30_FilterUnseenIsPure ==
    [][memCall'.op = "filter_unseen"
        => /\ memCall'.ret
                = {id \in MemoryIds :
                    /\ \E i \in DOMAIN memCall'.arg : memCall'.arg[i] = id
                    /\ id \notin seen}
           /\ seen' = seen
           /\ memFile' = memFile]_vars

\* filter_unseen was given an ID that is in memory and one that is not, and
\* returned the second
C30_Witness ==
    /\ memCall.op = "filter_unseen"
    /\ Len(memCall.arg) = 2
    /\ memCall.arg[1] \in seen
    /\ memCall.arg[2] \notin seen
    /\ memCall.ret = {memCall.arg[2]}
    /\ memFile = SavedMemory(seen)

\* C31: when record or clear has returned, the file holds the in-memory
\* set: a PaperMemory opened on the file loads the same set, so is_seen and
\* count answer the same.
C31_FileHoldsMemoryAfterMutation ==
    (memCall.op = "clear" \/ (memCall.op = "record" /\ ~memCall.raised))
        => /\ memFile.exists /\ memFile.valid
           /\ LoadMemory(memFile) = seen
           /\ \A id \in MemoryIds : (id \in LoadMemory(memFile)) <=> (id \in seen)
           /\ Count(LoadMemory(memFile)) = Count(seen)

\* record has returned with every ID in memory, and the file lists them in
\* ascending order
C31_Witness ==
    /\ memCall.op = "record"
    /\ ~memCall.raised
    /\ seen = MemoryIds
    /\ memFile.valid
    /\ Len(memFile.seen) = MaxMemoryIds
    /\ \A i \in 1..(MaxMemoryIds - 1) : memFile.seen[i] < memFile.seen[i + 1]

\* C32: PaperMemory(path) on a file that exists and is not valid JSON
\* returns a memory that holds no ID, and does not raise.
C32_CorruptFileOpensEmpty ==
    (memCall.op = "open" /\ memFile.exists /\ ~memFile.valid)
        => /\ ~memCall.raised
           /\ Count(seen) = 0

(***************************************************************************)
(* Properties of the failure paths of generate (under SpecGen).            *)
(***************************************************************************)
\* C38: when a generate call returns status error, the seen-paper memory
\* holds the IDs it held when the call began (the memory changes nowhere
\* in a call before its last stretch of code, so that is the set before
\* the returning step).
C38_ErrorLeavesMemory ==
    [][\A t \in Tasks :
        (pc[t] \in InFlight /\ pc'[t] = "idle" /\ result'.status = "error")
            => seen' = seen]_vars

(***************************************************************************)
(* Properties of the digest of a completed run (under SpecPipeline).       *)
(***************************************************************************)
\* C40 as stated: a run that returns status completed with top_n >= 1 has
\* saved a digest with at least one paper.
C40_CompletedDigestNonEmpty ==
    [][(RunCompletes /\ cfg[1].top_n >= 1) => DigestPapers # {}]_vars

\* C40: a run that returns status completed with top_n >= 1 has saved a
\* digest that holds a paper exactly when rank_papers returned one; either
\* way the day's file is the digest and last_digest is the instant of the
\* run.
C40_NonEmptyWhenRanked ==
    [][(RunCompletes /\ cfg[1].top_n >= 1)
        => /\ DigestPapers # {} <=> fetchLog'.ranked >= 1
           /\ storage'[DayOf(genClock)].exists
           /\ last_digest' = genClock]_vars

\* a run has completed whose rank_papers returned two papers and whose
\* digest holds one of them: top_n was 1
C40_Witness ==
    /\ pc[1] = "idle"
    /\ result.status = "completed"
    /\ fetchLog.ranked = 2
    /\ \E d \in Days : /\ storage[d].exists
                       /\ Len(storage[d].papers) = 1
                       /\ last_digest \in {n \in 1..MaxPipelineRuns : DayOf(n) = d}

(***************************************************************************)
(* Properties of DigestScheduler (under SpecScheduler).                    *)
(***************************************************************************)
\* C33: stop() while a generate call of the loop is in flight does not
\* interrupt the call: a call in flight ends only by returning its result.
C33_StopLeavesRunInFlight ==
    [][\A t \in Tasks :
        (loopPc[t] = "generate" /\ pc[t] \in InFlight /\ pc'[t] = "idle")
            => /\ interrupted' = interrupted
               /\ result'.status \in {"completed", "error"}]_vars

\* the step begins a generate call of loop task t
BeginsGenerate(t) == loopPc[t] # "generate" /\ loopPc'[t] = "generate"

\* C37: start() on a running scheduler changes neither the task, the
\* stored configuration nor any loop and creates no loop; after stop()
\* is_running is false and the task reference is None, and a generate call
\* is begun only by the loop of the last start(), never by a stopped one.
C37_StartIdempotentStopFinal ==
    [][/\ (schedCall'.op = "start" /\ sched_running)
            => UNCHANGED <<sched_running, sched_task, sched_config,
                           schedule_hour, loopPc, cancelReq>>
       /\ schedCall'.op = "stop" => ~sched_running' /\ sched_task' = 0
       /\ \A t \in Tasks :
            BeginsGenerate(t)
                => sched_running /\ sched_task = t /\ t \notin cancelReq]_vars

\* start() was a no-op on the running scheduler of a second start(), whose
\* loop is in a generate call, and the loop of the first start() has ended
C37_Witness ==
    /\ schedCall = [op |-> "start", noop |-> TRUE]
    /\ sched_running
    /\ sched_task = 2
    /\ loopPc[2] = "generate"
    /\ loopPc[1] \in {"exited", "cancelled"}

\* C39: when the task that runs generate is cancelled at the await it is
\* suspended at, is_generating is false after the step and the step has
\* saved no digest, recorded no ID and left last_digest as it was.
C39_CancelledRunLeavesNoTrace ==
    [][\A t \in Tasks :
        (t \in cancelReq /\ pc[t] \in InFlight /\ pc'[t] = "idle")
            => /\ ~is_generating'
               /\ storage' = storage
               /\ seen' = seen
               /\ last_digest' = last_digest]_vars

\* a generate call was cancelled while it awaited rank_papers and another
\* while it awaited a source; the flag is free
C39_Witness ==
    /\ \E x \in interrupted : x.at = "rank"
    /\ \E x \in interrupted : x.at = "fetch_arxiv"
    /\ ~is_generating

(***************************************************************************)
(* Properties of the concurrent calls of rank_papers (under SpecCalls).    *)
(***************************************************************************)
\* the step starts rank_paper calls
CallsBegin == inFlight' \ inFlight # {}

\* C34: at most batch_size rank_paper calls are in flight; calls start only
\* when no call is in flight, and, but for the first batch, in the step
\* that ends the sleep between two batches; the sleep is entered only when
\* papers remain behind the batch.
C34_BatchesBoundedAndSeparated ==
    [][/\ Cardinality(inFlight') <= rankIn.batch_size
       /\ CallsBegin
            => /\ inFlight = {}
               /\ inFlight' = BatchPositions(rankPos')
               /\ \A i \in 1..rankPos' : i \notin inFlight'
               /\ rankPos' = 0 \/ rankOut.status = "sleep"
       /\ (rankOut'.status = "sleep" /\ rankOut.status # "sleep")
            => /\ inFlight = {}
               /\ rankPos + rankIn.batch_size < Len(rankIn.papers)
       /\ (rankOut'.status = "returned" /\ rankOut.status # "returned")
            => rankOut.status # "sleep"]_vars

\* the second batch is in flight after a first batch of batch_size calls
C34_Witness ==
    /\ rankOut.status = "gather"
    /\ rankIn.batch_size = MaxBatchSize
    /\ rankPos = rankIn.batch_size
    /\ inFlight # {}
    /\ \A i \in inFlight : i > rankPos

\* what rank_papers returns when every call finishes in the order of the
\* list: the papers whose call did not raise, sorted by score, ties in
\* the order of the list
InOrderResult == SortByScore(PapersOf(Gathered(rankIn.papers)))

\* C35: whatever the order in which the calls of a batch finish, rank_papers
\* returns the list it returns when they finish in the order of the batch.
C35_CompletionOrderIrrelevant ==
    rankOut.status = "returned" => rankOut.papers = InOrderResult

\* rank_papers has returned two papers of equal score whose calls, in one
\* batch, finished in the reverse of the order of the list
C35_Witness ==
    /\ rankOut.status = "returned"
    /\ Len(rankOut.papers) >= 2
    /\ rankOut.papers[1].relevance_score = rankOut.papers[2].relevance_score
    /\ rankOut.papers[1].arxiv_id < rankOut.papers[2].arxiv_id
    /\ \E j, k \in DOMAIN finished :
        /\ j < k
        /\ finished[j] = rankOut.papers[2].arxiv_id
        /\ finished[k] = rankOut.papers[1].arxiv_id

(***************************************************************************)
(* Properties of the Semantic Scholar fetch (under SpecRetry).             *)
(***************************************************************************)
\* the requests sent so far
Gets == {i \in DOMAIN httpLog : httpLog[i].ev = "get"}

\* record i of the log is a response of the given kinds
IsResponse(i, kinds) ==
    httpLog[i].ev = "response" /\ httpLog[i].kind \in kinds

OtherErrors == {"transport_error", "http_error", "bad_body"}

\* the items at the head of the list that are parsed
LeadingGood(items) ==
    Cardinality({n \in DOMAIN items : \A j \in 1..n : items[j] = "good"})

\* the call got a body and parsed every item of it
FetchSucceeded ==
    /\ httpLog # <<>>
    /\ IsResponse(Len(httpLog), {"ok"})
    /\ LeadingGood(httpLog[Len(httpLog)].items)
        = Len(httpLog[Len(httpLog)].items)

====
